---- MODULE Spec2Model ----
(***************************************************************************)
(* Model of the two stateful subsystems of ska-src-clients:                *)
(*   - the resumable operation plan (plan/plan.py, plan/step.py),          *)
(*   - the OIDC token session (session/oidc.py) with the expiry sweep      *)
(*     decorator (common/utility.py).                                      *)
(* The plan and the session do not share state, so each has its own        *)
(* specifications over the same variables: PlanSpec, RoundTripSpec,        *)
(* PlanLifeSpec (a plan over several processes, with save and load) and    *)
(* DispatchSpec (a plan file saved by another program) for the plan;       *)
(* SessionSpec and StoreSpec (one process), TokenSpec and ReloadSpec       *)
(* (several processes in turn on the token directory), PeerSpec (two       *)
(* sessions at once on the token directory), CorruptSpec and               *)
(* CorruptSweepSpec (a token directory with corrupt files), DeviceFlowSpec *)
(* and DeviceFlowLiveSpec (the device flow under weak fairness of its      *)
(* polling) and AuthSpec (get_authenticated_requests_session) for the      *)
(* session.                                                                *)
(* The liveness ping of check_authentication_api_aliveness is taken to     *)
(* succeed, and time.time() is read once per operation.                    *)
(***************************************************************************)
EXTENDS Integers, Sequences, FiniteSets, TLC

VARIABLES
    steps,                  \* Plan.steps: sequence of Step objects
    current_step_number,    \* Plan._current_step_number (the cursor)
    plan_files,             \* working directory: path -> serialized plan or NoFile
    run_ctx,                \* position of the process inside Plan.run
    loaded,                 \* outcome of Plan.load, up to the end of the first run
    access_tokens,          \* OIDCSession.access_tokens: audience -> entry or NoEntry
    refresh_tokens,         \* OIDCSession.refresh_tokens: sequence of entries
    disk,                   \* stored_token_directory: file id -> bundle or NoFile
    now,                    \* time.time()
    minted,                 \* number of tokens the authentication service has issued
    last,                   \* record of the last session operation (calls made, result)
    flow,                   \* position of the process inside start_device_flow
    auth,                   \* position of the caller inside get_authenticated_requests_session
    peer                    \* caches of a second OIDCSession on the same token directory

plan_vars == <<steps, current_step_number, plan_files, run_ctx, loaded>>
token_vars == <<access_tokens, refresh_tokens, disk, now, minted, last, flow, auth, peer>>
(* What an operation of the session leaves alone when it is called          *)
(* directly: the plan, the caller of get_authenticated_requests_session     *)
(* and the caches of any other session.                                     *)
session_frame == <<steps, current_step_number, plan_files, run_ctx, loaded, auth, peer>>
vars == <<steps, current_step_number, plan_files, run_ctx, loaded,
          access_tokens, refresh_tokens, disk, now, minted, last, flow, auth, peer>>

(***************************************************************************)
(* Bounds of the model.                                                    *)
(***************************************************************************)
MaxSteps == 3
MaxRoundTripSteps == 2
MaxTime == 2
MaxTokens == 2
MaxRefreshTokens == 2
MaxPollAttempts == 3
MaxLifeSteps == 2

NoFile == [exists |-> FALSE]
None == "None"
NoEntry == [present |-> FALSE]
NoToken == [kind |-> "none"]

(***************************************************************************)
(*                              THE PLAN                                   *)
(***************************************************************************)

(* Callables a step can hold.  A Python callable is described by what      *)
(* save() reads from it: __name__, __module__, whether it has __self__,    *)
(* the class name of __self__, and which object __self__ is.               *)
MkdirWebDAV ==
    [name |-> "mkdir", module |-> "ska_src_clients.client.data_management",
     has_self |-> TRUE, self_class |-> "WebDAVClient3", self_id |-> "caller"]
MkdirBase ==
    [name |-> "mkdir", module |-> "ska_src_clients.client.data_management",
     has_self |-> TRUE, self_class |-> "DataManagementClient", self_id |-> "caller"]
OsUnlink ==
    [name |-> "unlink", module |-> "posix",
     has_self |-> TRUE, self_class |-> "module", self_id |-> "posix"]
UrlToParts ==
    [name |-> "url_to_parts", module |-> "ska_src_clients.common.utility",
     has_self |-> FALSE, self_class |-> None, self_id |-> None]

Callables == {MkdirWebDAV, MkdirBase, OsUnlink, UrlToParts}

(* What import_module / getattr find. *)
ModuleClasses(module) ==
    IF module = "ska_src_clients.client.data_management"
    THEN {"DataManagementClient", "WebDAVClient3"} ELSE {}

ModuleFunctions(module) ==
    IF module = "posix" THEN {OsUnlink}
    ELSE IF module = "ska_src_clients.common.utility" THEN {UrlToParts}
    ELSE {}

(* WebDAVClient3.__init__ has required parameters; DataManagementClient    *)
(* has the default constructor.                                            *)
ConstructorNeedsArguments(class) == class = "WebDAVClient3"

ClassMethods(class) ==
    IF class \in {"DataManagementClient", "WebDAVClient3"}
    THEN {"list", "mkdir", "upload"} ELSE {}

Sections == {"upload", "cleanup"}

(* Argument values and their JSON image: json.dump writes a tuple and a   *)
(* list as an array, json.load reads an array back as a list.              *)
Arguments == {[kind |-> "str", val |-> "p"], [kind |-> "tuple", val |-> "p"]}

JsonDump(arguments) ==
    IF arguments.kind \in {"list", "tuple"}
    THEN [json |-> "array", val |-> arguments.val]
    ELSE [json |-> "string", val |-> arguments.val]

JsonLoad(j) ==
    IF j.json = "array" THEN [kind |-> "list", val |-> j.val]
    ELSE [kind |-> "str", val |-> j.val]

Step(section_name, fqn, arguments, is_done) ==
    [section_name |-> section_name, fqn |-> fqn, arguments |-> arguments,
     is_done |-> is_done]

(* Plan.save: the record written for one step. *)
SaveStep(step) ==
    IF step.fqn.has_self
    THEN [section_name |-> step.section_name,
          function_name |-> step.fqn.name,
          function_class_name |-> step.fqn.self_class,
          function_module_name |-> step.fqn.module,
          arguments |-> JsonDump(step.arguments),
          is_done |-> step.is_done]
    ELSE [section_name |-> step.section_name,
          function_name |-> step.fqn.name,
          function_class_name |-> None,
          function_module_name |-> step.fqn.module,
          arguments |-> JsonDump(step.arguments),
          is_done |-> step.is_done]

(* Plan.save: the whole output written to the file. *)
SaveOutput(cursor, ss) ==
    [current_step_number |-> cursor,
     steps |-> [i \in 1..Len(ss) |-> SaveStep(ss[i])]]

(* getattr(module, function_name) *)
GetModuleFunction(module, function_name) ==
    LET found == {f \in ModuleFunctions(module) : f.name = function_name}
    IN  IF found = {} THEN [raised |-> "AttributeError"]
        ELSE [raised |-> None, fqn |-> CHOOSE f \in found : TRUE]

(* Plan.load: resolving one saved step to a callable. *)
ResolveFqn(s) ==
    IF s.function_class_name # None
    THEN IF s.function_class_name \in ModuleClasses(s.function_module_name)
         THEN IF ConstructorNeedsArguments(s.function_class_name)
              THEN [raised |-> "TypeError"]
              ELSE IF s.function_name \in ClassMethods(s.function_class_name)
                   THEN [raised |-> None,
                         fqn |-> [name |-> s.function_name,
                                  module |-> s.function_module_name,
                                  has_self |-> TRUE,
                                  self_class |-> s.function_class_name,
                                  self_id |-> "loaded"]]
                   ELSE GetModuleFunction(s.function_module_name, s.function_name)
         ELSE GetModuleFunction(s.function_module_name, s.function_name)
    ELSE GetModuleFunction(s.function_module_name, s.function_name)

(* Plan.load: the steps appended from the file, or the first error. *)
LoadSteps(content) ==
    LET n == Len(content.steps)
        bad == {i \in 1..n : ResolveFqn(content.steps[i]).raised # None}
    IN  IF bad # {}
        THEN [raised |-> ResolveFqn(content.steps[CHOOSE i \in bad :
                                      \A j \in bad : i <= j]).raised]
        ELSE [raised |-> None,
              steps |-> [i \in 1..n |->
                  Step(content.steps[i].section_name,
                       ResolveFqn(content.steps[i]).fqn,
                       JsonLoad(content.steps[i].arguments),
                       content.steps[i].is_done)]]

PlanPaths == {"plan-dump.json", "plan.json"}
DumpPath == "plan-dump.json"

Idle == [pc |-> "idle"]
NotLoaded == [status |-> "none"]

PlanInit ==
    /\ steps = <<>>
    /\ current_step_number = 0
    /\ plan_files = [p \in PlanPaths |-> NoFile]
    /\ run_ctx = Idle
    /\ loaded = NotLoaded

ProcessReady == run_ctx.pc \in {"idle", "returned"}

(* Plan.append_step *)
AppendStep(section_name, fqn, arguments, is_done) ==
    /\ ProcessReady
    /\ Len(steps) < MaxSteps
    /\ steps' = Append(steps, Step(section_name, fqn, arguments, is_done))
    /\ run_ctx' = Idle
    /\ loaded' = NotLoaded
    /\ UNCHANGED <<current_step_number, plan_files>>

(* Plan.clear *)
Clear ==
    /\ ProcessReady
    /\ steps' = <<>>
    /\ current_step_number' = 0
    /\ run_ctx' = Idle
    /\ loaded' = NotLoaded
    /\ UNCHANGED plan_files

WriteFile(files, path, content) ==
    [files EXCEPT ![path] = [exists |-> TRUE, content |-> content]]

(* Plan.save *)
Save(path) ==
    /\ ProcessReady
    /\ plan_files' = WriteFile(plan_files, path, SaveOutput(current_step_number, steps))
    /\ run_ctx' = Idle
    /\ loaded' = NotLoaded
    /\ UNCHANGED <<steps, current_step_number>>

(* A variant of Plan.load without line 88: the plan it returns has its     *)
(* cursor at 0.                                                            *)
LoadFromStart(path) ==
    /\ ProcessReady
    /\ plan_files[path].exists
    /\ LET content == plan_files[path].content
           result == LoadSteps(content)
       IN  IF result.raised # None
           THEN /\ loaded' = [status |-> "raised", path |-> path,
                              error |-> result.raised]
                /\ UNCHANGED <<steps, current_step_number>>
           ELSE /\ loaded' = [status |-> "ok", path |-> path, error |-> None]
                /\ steps' = result.steps
                /\ current_step_number' = 0
    /\ run_ctx' = Idle
    /\ UNCHANGED plan_files

(* Plan.load: a class method returning a new plan, which the caller then   *)
(* uses; when resolving a step raises, the caller keeps what it had.       *)
Load(path) ==
    /\ ProcessReady
    /\ plan_files[path].exists
    /\ LET content == plan_files[path].content
           result == LoadSteps(content)
       IN  IF result.raised # None
           THEN /\ loaded' = [status |-> "raised", path |-> path,
                              error |-> result.raised]
                /\ UNCHANGED <<steps, current_step_number>>
           ELSE /\ loaded' = [status |-> "ok", path |-> path, error |-> None]
                /\ steps' = result.steps
                /\ current_step_number' = content.current_step_number
    /\ run_ctx' = Idle
    /\ UNCHANGED plan_files

(* A variant of lines 133-137 that looks for the section from the first    *)
(* step of the plan.                                                       *)
SeekSectionFromStart(ss, cursor, section_name) ==
    LET hits == {i \in 0..(Len(ss) - 1) : ss[i + 1].section_name = section_name}
    IN  IF section_name # None /\ hits # {}
        THEN CHOOSE i \in hits : \A j \in hits : i <= j
        ELSE cursor

(* Plan.run_next_step, lines 133-137: with a section name the cursor moves *)
(* to the first step of that section at or after it, if there is one.      *)
SeekSection(ss, cursor, section_name) ==
    LET hits == {i \in cursor..(Len(ss) - 1) : ss[i + 1].section_name = section_name}
    IN  IF section_name # None /\ hits # {}
        THEN CHOOSE i \in hits : \A j \in hits : i <= j
        ELSE cursor

(* A variant of run_next_step that does not flag the step it has run.      *)
MarkDoneOmitted(ss, cursor) == ss

(* Plan.run_next_step, line 154 *)
MarkDone(ss, cursor) == [ss EXCEPT ![cursor + 1].is_done = TRUE]

(* A variant of line 155 that moves the cursor past two steps.             *)
AdvanceCursorTwice(cursor) == cursor + 2

(* Plan.run_next_step, line 155 *)
AdvanceCursor(cursor) == cursor + 1

(* A variant of line 117 that takes the last step for the end of the plan. *)
ReachedEndOfPlanEarly(cursor, ss) == cursor > Len(ss) - 2

(* Plan.run, line 117 *)
ReachedEndOfPlan(cursor, ss) == cursor > Len(ss) - 1

ReturnValues == {"returned"}

(* What Plan.run hands back to its caller: nothing yet, the value None, or *)
(* a list.                                                                 *)
NotReturned == [kind |-> "pending"]
NoneValue == [kind |-> "None"]
ListValue(items) == [kind |-> "list", items |-> items]

(* Plan.run, lines 117-119: at the end of the plan `return` has no value;  *)
(* `return returns` (line 125) follows `while True` and is never reached.  *)
ReturnAtEndOfPlan(returns) == NoneValue

(* What one call of Plan.run was asked and which steps it invoked.          *)
RunSummary(ctx) ==
    [section_name |-> ctx.section_name, dry_run |-> ctx.dry_run,
     start_steps |-> ctx.start_steps, start_cursor |-> ctx.start_cursor,
     invoked |-> ctx.invoked]

(* The calls of Plan.run that have returned since the plan was last        *)
(* appended to, cleared or loaded, in the order they were made.            *)
EarlierRuns(ctx) ==
    IF ctx.pc = "returned" THEN Append(ctx.earlier, RunSummary(ctx)) ELSE <<>>

(* Plan.run up to the first call of run_next_step *)
RunStart(section_name, dry_run) ==
    /\ ProcessReady
    /\ run_ctx' = [pc |-> "running", section_name |-> section_name,
                   dry_run |-> dry_run, returns |-> <<>>, invoked |-> <<>>,
                   start_steps |-> steps, start_cursor |-> current_step_number,
                   raised_at |-> -1, raised |-> None, dumped |-> FALSE,
                   result |-> NotReturned,
                   earlier |-> EarlierRuns(run_ctx)]
    /\ loaded' = IF run_ctx.pc = "idle" THEN loaded ELSE NotLoaded
    /\ UNCHANGED <<steps, current_step_number, plan_files>>

(* One iteration of the loop of Plan.run in which run_next_step returns.   *)
RunStepReturns ==
    /\ run_ctx.pc = "running"
    /\ LET cursor == SeekSection(steps, current_step_number, run_ctx.section_name)
       IN  /\ cursor < Len(steps)
           /\ \E rtn \in (IF run_ctx.dry_run THEN {None} ELSE ReturnValues) :
                /\ steps' = MarkDone(steps, cursor)
                /\ current_step_number' = AdvanceCursor(cursor)
                /\ run_ctx' = [run_ctx EXCEPT
                      !.returns = Append(@, rtn),
                      !.invoked = IF run_ctx.dry_run THEN @ ELSE Append(@, cursor),
                      !.result = IF ReachedEndOfPlan(AdvanceCursor(cursor), steps)
                                 THEN ReturnAtEndOfPlan(Append(run_ctx.returns, rtn))
                                 ELSE @,
                      !.pc = IF ReachedEndOfPlan(AdvanceCursor(cursor), steps)
                             THEN "returned" ELSE "running"]
    /\ UNCHANGED <<plan_files, loaded>>

(* Plan.run, lines 120-124: the plan is saved as it stands and the process *)
(* exits.                                                                  *)
DumpOnFailure(files, cursor, ss) == WriteFile(files, DumpPath, SaveOutput(cursor, ss))

(* A variant of Plan.run whose handler saves the plan and then goes round  *)
(* the loop again instead of exiting.                                      *)
RunStepRaisesAndGoesOn ==
    /\ run_ctx.pc = "running"
    /\ ~run_ctx.dry_run
    /\ LET cursor == SeekSection(steps, current_step_number, run_ctx.section_name)
       IN  /\ cursor < Len(steps)
           /\ current_step_number' = cursor
           /\ plan_files' = DumpOnFailure(plan_files, cursor, steps)
           /\ run_ctx' = [run_ctx EXCEPT
                 !.invoked = Append(@, cursor),
                 !.raised_at = cursor, !.raised = "Exception",
                 !.dumped = TRUE]
    /\ UNCHANGED <<steps, loaded>>

(* One iteration in which the step's operation raises, or the process is   *)
(* interrupted while the operation runs.                                   *)
RunStepRaises ==
    /\ run_ctx.pc = "running"
    /\ ~run_ctx.dry_run
    /\ LET cursor == SeekSection(steps, current_step_number, run_ctx.section_name)
       IN  /\ cursor < Len(steps)
           /\ \E e \in {"Exception", "KeyboardInterrupt"} :
                /\ current_step_number' = cursor
                /\ plan_files' = DumpOnFailure(plan_files, cursor, steps)
                /\ run_ctx' = [run_ctx EXCEPT
                      !.invoked = Append(@, cursor),
                      !.raised_at = cursor, !.raised = e,
                      !.dumped = TRUE, !.pc = "exited"]
    /\ UNCHANGED <<steps, loaded>>

(* One iteration in which there is no step at the cursor: line 138 raises  *)
(* IndexError, which run catches like any other exception.                 *)
RunStepIndexError ==
    /\ run_ctx.pc = "running"
    /\ LET cursor == SeekSection(steps, current_step_number, run_ctx.section_name)
       IN  /\ cursor >= Len(steps)
           /\ current_step_number' = cursor
           /\ plan_files' = DumpOnFailure(plan_files, cursor, steps)
           /\ run_ctx' = [run_ctx EXCEPT
                 !.raised_at = cursor, !.raised = "IndexError",
                 !.dumped = TRUE, !.pc = "exited"]
    /\ UNCHANGED <<steps, loaded>>

(* The plans of PlanSpec are built from the two callables of              *)
(* DataAPI.upload (api/data.py, lines 274-334), with one argument value.   *)
UploadCallables == {MkdirWebDAV, OsUnlink}
UploadArguments == [kind |-> "str", val |-> "p"]

PlanNext ==
    \/ \E s \in Sections, f \in UploadCallables, d \in BOOLEAN :
          AppendStep(s, f, UploadArguments, d)
    \/ Clear
    \/ \E s \in Sections \cup {None}, d \in BOOLEAN : RunStart(s, d)
    \/ RunStepReturns
    \/ RunStepRaises
    \/ RunStepIndexError

(***************************************************************************)
(*                          THE TOKEN SESSION                              *)
(***************************************************************************)

Services == {"A", "B"}

(* "INTERNAL", the path_on_disk of a token that was never written to disk; *)
(* files are numbered from 1.                                              *)
Internal == 0

(* Lifetimes, in clock ticks, of the access and of the refresh token of a  *)
(* bundle the authentication service hands out: either may outlive the     *)
(* other, or both may last.  A token of lifetime 0 is valid until the      *)
(* clock next advances.                                                    *)
Lifetimes == {<<0, 1>>, <<1, 0>>, <<1, 1>>}

(* A token is modelled by the claims jwt.decode reads from it plus the     *)
(* number that makes it unique; a bundle is a token endpoint's response.   *)
AccessTokenOf(id, aud, exp) == [kind |-> "access", id |-> id, aud |-> aud, exp |-> exp]
RefreshTokenOf(id, exp) == [kind |-> "refresh", id |-> id, exp |-> exp]

Bundle(id, aud, access_exp, refresh_exp, with_refresh) ==
    [access_token |-> AccessTokenOf(id, aud, access_exp),
     refresh_token |-> IF with_refresh THEN RefreshTokenOf(id, refresh_exp)
                       ELSE NoToken]

(* A variant of list.pop that removes the head whatever the index.         *)
RemoveHead(seq, idx) == Tail(seq)

(* list.pop(idx): the list without its element at idx.                     *)
RemoveAt(seq, idx) == [i \in 1..(Len(seq) - 1) |-> IF i < idx THEN seq[i] ELSE seq[i + 1]]

(* A variant of the sweep that keeps an access token for one more unit of  *)
(* time after its expiry.                                                  *)
SweepAccessTokensLate(at, t) ==
    [aud \in Services |->
        IF at[aud].present /\ at[aud].expires_at >= t - 1 THEN at[aud] ELSE NoEntry]

(* A variant of the sweep that leaves the access tokens in memory alone.   *)
SweepAccessTokensOmitted(at, t) == at

(* remove_expired_tokens, lines 100-106 *)
SweepAccessTokens(at, t) ==
    [aud \in Services |->
        IF at[aud].present /\ at[aud].expires_at >= t THEN at[aud] ELSE NoEntry]

(* A variant of line 112 that takes every refresh token for valid.         *)
RefreshTokenIsValidAlways(entry, t) == TRUE

RefreshTokenIsValid(entry, t) == entry.expires_at >= t

(* A variant of the sweep that keeps only the first valid refresh token.   *)
SweepRefreshTokensKeepsOne(rt, t) ==
    LET valid == SelectSeq(rt, LAMBDA entry : entry.expires_at >= t)
    IN  IF valid = <<>> THEN <<>> ELSE <<valid[1]>>

(* A variant of the sweep that leaves the refresh tokens in memory alone.  *)
SweepRefreshTokensOmitted(rt, t) == rt

(* remove_expired_tokens, lines 109-114 *)
SweepRefreshTokens(rt, t) == SelectSeq(rt, LAMBDA entry : RefreshTokenIsValid(entry, t))

(* remove_expired_tokens, lines 122-127 *)
RefreshTokenHasExpired(content, t) ==
    IF content.refresh_token # NoToken THEN content.refresh_token.exp < t ELSE FALSE

(* remove_expired_tokens, lines 130-135 *)
AccessTokenHasExpired(content, t) ==
    IF content.access_token # NoToken THEN content.access_token.exp < t ELSE FALSE

(* A variant of line 138 that deletes the file as soon as one of its       *)
(* tokens has expired.                                                     *)
FileIsRemovedOnAnyExpiry(content, t) ==
    RefreshTokenHasExpired(content, t) \/ AccessTokenHasExpired(content, t)

(* remove_expired_tokens, line 138 *)
FileIsRemoved(content, t) ==
    RefreshTokenHasExpired(content, t) /\ AccessTokenHasExpired(content, t)

(* remove_expired_tokens, lines 117-140 *)
SweepDisk(d, t) ==
    [f \in DOMAIN d |-> IF d[f].exists /\ FileIsRemoved(d[f].content, t) THEN NoFile ELSE d[f]]

(* The whole decorator: memory and disk after the sweep. *)
Store(at, rt, d) == [access_tokens |-> at, refresh_tokens |-> rt, disk |-> d]

RemoveExpiredTokens(st, t) ==
    Store(SweepAccessTokens(st.access_tokens, t),
          SweepRefreshTokens(st.refresh_tokens, t),
          SweepDisk(st.disk, t))

CurrentStore == Store(access_tokens, refresh_tokens, disk)

(* OIDCSession._save_tokens_to_disk: a new file named by a fresh uuid;     *)
(* the model numbers the file after the bundle it holds.                   *)
SaveTokensToDisk(d, token) ==
    [d EXCEPT ![token.access_token.id] = [exists |-> TRUE, content |-> token]]

(* A variant that caches every entry as held in memory only.               *)
PathOfMemoryOnly(token, stored) == Internal

PathOf(token, stored) == IF stored THEN token.access_token.id ELSE Internal

(* OIDCSession._add_tokens_to_internal_cache, lines 46-53 *)
AddAccessToken(at, token, path_on_disk) ==
    [at EXCEPT ![token.access_token.aud] =
        [present |-> TRUE, token |-> token.access_token,
         expires_at |-> token.access_token.exp, path_on_disk |-> path_on_disk]]

(* A variant that keeps only the refresh token it adds.                    *)
AddRefreshTokenAlone(rt, token, path_on_disk) ==
    IF token.refresh_token # NoToken
    THEN <<[token |-> token.refresh_token,
            associated_access_token |-> token.access_token,
            expires_at |-> token.refresh_token.exp,
            path_on_disk |-> path_on_disk]>>
    ELSE <<>>

(* OIDCSession._add_tokens_to_internal_cache, lines 59-69 *)
AddRefreshToken(rt, token, path_on_disk) ==
    IF token.refresh_token # NoToken
    THEN Append(rt, [token |-> token.refresh_token,
                     associated_access_token |-> token.access_token,
                     expires_at |-> token.refresh_token.exp,
                     path_on_disk |-> path_on_disk])
    ELSE rt

AddTokensToInternalCache(st, token, path_on_disk) ==
    Store(AddAccessToken(st.access_tokens, token, path_on_disk),
          AddRefreshToken(st.refresh_tokens, token, path_on_disk),
          st.disk)

(* exchange_token lines 229-235 and request_token lines 309-314.           *)
CacheToken(st, token, store_to_disk) ==
    AddTokensToInternalCache(
        Store(st.access_tokens, st.refresh_tokens,
              IF store_to_disk THEN SaveTokensToDisk(st.disk, token) ELSE st.disk),
        token, PathOf(token, store_to_disk))

NoFlow == [pc |-> "idle", state |-> "NotStarted"]

(* A second session that has cached nothing: OIDCSession.__init__, lines   *)
(* 35-37.                                                                  *)
NoPeer == [access_tokens |-> [aud \in Services |-> NoEntry],
           refresh_tokens |-> <<>>,
           flow |-> NoFlow]

(* No call of get_authenticated_requests_session is under way.             *)
NoRequest == [pc |-> "idle", outcome |-> "none"]

TokenInit ==
    /\ access_tokens = [aud \in Services |-> NoEntry]
    /\ refresh_tokens = <<>>
    /\ disk = [f \in 1..MaxTokens |-> NoFile]
    /\ now = 0
    /\ minted = 0
    /\ last = [op |-> "init"]
    /\ flow = NoFlow
    /\ auth = NoRequest
    /\ peer = NoPeer

Init == PlanInit /\ TokenInit

PlanSpec == Init /\ [][PlanNext /\ UNCHANGED token_vars]_vars

(* What is recorded of a session operation: which branch it took, the     *)
(* calls it made to the authentication client with their outcome, and what *)
(* it returned.                                                            *)
Record(op, service, by_refresh, case, calls, result) ==
    [op |-> op, service |-> service, by_refresh |-> by_refresh,
     case |-> case, calls |-> calls, result |-> result]

(* The record of an exchange_token call, with its store_to_disk argument.  *)
ExchangeRecord(store_to_disk, service, by_refresh, case, calls, result) ==
    [op |-> "exchange_token", service |-> service, by_refresh |-> by_refresh,
     case |-> case, calls |-> calls, result |-> result,
     store_to_disk |-> store_to_disk]

Call(op, service, access_token, refresh_token, ok, response) ==
    [op |-> op, service |-> service, access_token |-> access_token,
     refresh_token |-> refresh_token, ok |-> ok, response |-> response]

SetStore(st) ==
    /\ access_tokens' = st.access_tokens
    /\ refresh_tokens' = st.refresh_tokens
    /\ disk' = st.disk

(* exchange_token, lines 152-154: the first refresh token, in list order,  *)
(* whose associated access token is cached; 0 when there is none.          *)
FindMatchingRefreshToken(rt, at) ==
    LET hits == {i \in 1..Len(rt) : \E aud \in Services :
                    /\ at[aud].present
                    /\ at[aud].token = rt[i].associated_access_token}
    IN  IF hits = {} THEN 0 ELSE CHOOSE i \in hits : \A j \in hits : i <= j

(* A variant of the matched exchange that keeps the consumed access token. *)
PopAccessTokensOmitted(at, token) == at

(* exchange_token, lines 166-171 *)
PopAccessTokens(at, token) ==
    [aud \in Services |->
        IF at[aud].present /\ at[aud].token = token THEN NoEntry ELSE at[aud]]

(* os.remove: FileNotFoundError when there is no such file, as for the     *)
(* path "INTERNAL".                                                        *)
OsRemove(d, path) ==
    IF path = Internal \/ ~d[path].exists
    THEN [raised |-> TRUE, disk |-> d]
    ELSE [raised |-> FALSE, disk |-> [d EXCEPT ![path] = NoFile]]

(* exchange_token, lines 230-235: the bundle is cached and                 *)
(* get_access_token (a decorated method) sweeps once more.                 *)
CacheExchangedToken(st, token, store_to_disk, t) ==
    RemoveExpiredTokens(CacheToken(st, token, store_to_disk), t)

(* A variant of the matched case that removes the pair from the caches     *)
(* and its file before it looks at the status of the response.             *)
AfterFailedExchangePopped(swept, popped) == popped

(* exchange_token, line 162: raise_for_status raises before the pair is    *)
(* removed (lines 164-174), so the store is as the sweep left it.          *)
AfterFailedExchange(swept, popped) == swept

(* exchange_token, by_refresh, lines 151-179: a refresh token with its     *)
(* access token is cached.                                                 *)
ExchangeMatched(service, store_to_disk, ok) ==
    /\ flow.pc = "idle"
    /\ LET pre == CurrentStore
           s == RemoveExpiredTokens(pre, now)
           m == FindMatchingRefreshToken(s.refresh_tokens, s.access_tokens)
       IN  /\ s.refresh_tokens # <<>>
           /\ m # 0
           /\ LET r == s.refresh_tokens[m]
                  popped == Store(PopAccessTokens(s.access_tokens, r.associated_access_token),
                                  RemoveAt(s.refresh_tokens, m), s.disk)
                  removed == OsRemove(s.disk, r.path_on_disk)
              IN  IF ~ok
                  THEN /\ SetStore(AfterFailedExchange(s,
                              Store(popped.access_tokens, popped.refresh_tokens,
                                    removed.disk)))
                       /\ minted' = minted
                       /\ last' = ExchangeRecord(store_to_disk, service, TRUE, "matched",
                              <<Call("exchange", service, r.associated_access_token,
                                     r.token, FALSE, NoToken)>>, "raised")
                  ELSE /\ minted < MaxTokens
                       /\ \E life \in Lifetimes :
                            LET token == Bundle(minted + 1, service, now + life[1], now + life[2], TRUE)
                                calls == <<Call("exchange", service, r.associated_access_token,
                                                r.token, TRUE, token)>>
                            IN  /\ minted' = minted + 1
                                /\ IF removed.raised
                                   THEN /\ SetStore(popped)
                                        /\ last' = ExchangeRecord(store_to_disk, service, TRUE, "matched", calls,
                                               "raised")
                                   ELSE /\ SetStore(CacheExchangedToken(
                                               Store(popped.access_tokens,
                                                     popped.refresh_tokens, removed.disk),
                                               token, store_to_disk, now))
                                        /\ last' = ExchangeRecord(store_to_disk, service, TRUE, "matched", calls,
                                               "True")
    /\ flow' = NoFlow
    /\ UNCHANGED now

(* The bundle a refresh call returns for a refresh token.  The session    *)
(* passes it on to the exchange call and never caches it (lines 193,       *)
(* 206-207), so it is numbered after the refresh token it replaces, with   *)
(* the sign changed, and not counted among the tokens that can be cached.  *)
RefreshedBundle(refresh_entry, t) ==
    Bundle(0 - refresh_entry.token.id, refresh_entry.associated_access_token.aud,
           t + 1, t + 1, TRUE)

(* exchange_token, by_refresh, lines 184-211: refresh tokens are cached    *)
(* but none with its access token.  The refresh calls fail for the tokens  *)
(* before index k and succeed for the one at k; k = 0 when all fail.       *)
ExchangeOrphaned(service, store_to_disk, k, ok) ==
    /\ flow.pc = "idle"
    /\ LET pre == CurrentStore
           s == RemoveExpiredTokens(pre, now)
           rt == s.refresh_tokens
           tried == IF k = 0 THEN Len(rt) ELSE k
       IN  /\ rt # <<>>
           /\ FindMatchingRefreshToken(rt, s.access_tokens) = 0
           /\ k \in 0..Len(rt)
           /\ IF k = 0
              THEN /\ SetStore(s)
                   /\ minted' = minted
                   /\ last' = ExchangeRecord(store_to_disk, service, TRUE, "orphaned",
                          [i \in 1..tried |-> Call("refresh", None, NoToken, rt[i].token,
                                                   FALSE, NoToken)],
                          "False")
              ELSE LET refreshed == RefreshedBundle(rt[k], now)
                       refresh_calls == [i \in 1..tried |->
                           Call("refresh", None, NoToken, rt[i].token, i = k,
                                IF i = k THEN refreshed ELSE NoToken)]
                       popped == Store(s.access_tokens, RemoveAt(rt, k), s.disk)
                       removed == OsRemove(s.disk, rt[k].path_on_disk)
                       after == Store(popped.access_tokens, popped.refresh_tokens,
                                      removed.disk)
                   IN  IF removed.raised
                       THEN /\ SetStore(popped)
                            /\ minted' = minted
                            /\ last' = ExchangeRecord(store_to_disk, service, TRUE,
                                   "orphaned", refresh_calls, "raised")
                       ELSE IF ~ok
                       THEN /\ SetStore(after)
                            /\ minted' = minted
                            /\ last' = ExchangeRecord(store_to_disk, service, TRUE,
                                   "orphaned",
                                   Append(refresh_calls,
                                       Call("exchange", service, refreshed.access_token,
                                            refreshed.refresh_token, FALSE, NoToken)),
                                   "raised")
                       ELSE /\ minted < MaxTokens
                            /\ \E life \in Lifetimes :
                                 LET token == Bundle(minted + 1, service, now + life[1],
                                                     now + life[2], TRUE)
                                 IN  /\ SetStore(CacheExchangedToken(after, token,
                                                                     store_to_disk, now))
                                     /\ minted' = minted + 1
                                     /\ last' = ExchangeRecord(store_to_disk, service, TRUE,
                                            "orphaned",
                                            Append(refresh_calls,
                                                Call("exchange", service,
                                                     refreshed.access_token,
                                                     refreshed.refresh_token, TRUE,
                                                     token)),
                                            "True")
    /\ flow' = NoFlow
    /\ UNCHANGED now

(* exchange_token, by_refresh, lines 146 and 212-213: no refresh token.    *)
ExchangeNoRefreshToken(service, store_to_disk) ==
    /\ flow.pc = "idle"
    /\ LET pre == CurrentStore
           s == RemoveExpiredTokens(pre, now)
       IN  /\ s.refresh_tokens = <<>>
           /\ SetStore(s)
           /\ last' = ExchangeRecord(store_to_disk, service, TRUE, "no_refresh_token", <<>>, "False")
    /\ flow' = NoFlow
    /\ UNCHANGED <<now, minted>>

(* exchange_token, line 216 *)
NoAccessTokens(at) == \A aud \in Services : ~at[aud].present

(* exchange_token, direct, lines 218-227: any cached access token is       *)
(* exchanged; the response may or may not carry a refresh token.           *)
ExchangeDirect(service, store_to_disk, chosen, ok, with_refresh) ==
    /\ flow.pc = "idle"
    /\ LET pre == CurrentStore
           s == RemoveExpiredTokens(pre, now)
       IN  /\ ~NoAccessTokens(s.access_tokens)
           /\ s.access_tokens[chosen].present
           /\ IF ~ok
              THEN /\ ~with_refresh
                   /\ SetStore(s)
                   /\ minted' = minted
                   /\ last' = ExchangeRecord(store_to_disk, service, FALSE, "direct",
                          <<Call("exchange", service, s.access_tokens[chosen].token,
                                 NoToken, FALSE, NoToken)>>, "raised")
              ELSE /\ minted < MaxTokens
                   /\ \E life \in Lifetimes :
                        LET token == Bundle(minted + 1, service, now + life[1], now + life[2],
                                            with_refresh)
                        IN  /\ with_refresh \/ life[2] = 0
                            /\ SetStore(CacheExchangedToken(s, token, store_to_disk, now))
                            /\ minted' = minted + 1
                            /\ last' = ExchangeRecord(store_to_disk, service, FALSE, "direct",
                                   <<Call("exchange", service,
                                          s.access_tokens[chosen].token, NoToken, TRUE,
                                          token)>>, "True")
    /\ flow' = NoFlow
    /\ UNCHANGED now

(* exchange_token, direct, lines 216-217: no access token.                 *)
ExchangeNoAccessToken(service, store_to_disk) ==
    /\ flow.pc = "idle"
    /\ LET pre == CurrentStore
           s == RemoveExpiredTokens(pre, now)
       IN  /\ NoAccessTokens(s.access_tokens)
           /\ SetStore(s)
           /\ last' = ExchangeRecord(store_to_disk, service, FALSE, "no_access_token", <<>>, "False")
    /\ flow' = NoFlow
    /\ UNCHANGED <<now, minted>>

(* OIDCSession.get_access_token *)
GetAccessToken(service) ==
    /\ flow.pc = "idle"
    /\ LET pre == CurrentStore
           s == RemoveExpiredTokens(pre, now)
       IN  /\ SetStore(s)
           /\ last' = Record("get_access_token", service, FALSE, "read",
                  <<>>,
                  IF s.access_tokens[service].present
                  THEN s.access_tokens[service].token ELSE NoToken)
    /\ flow' = NoFlow
    /\ UNCHANGED <<now, minted>>

(* What a file holds when it is not a token bundle: text that is not JSON, *)
(* or JSON whose access token is not a decodable JWT.                      *)
NotJson == [text |-> "not_json"]
NotJwt == [text |-> "not_jwt"]
IsBundle(content) == "access_token" \in DOMAIN content

(* OIDCSession.load_tokens_from_disk, lines 92-96, for one file:           *)
(* json.loads raising JSONDecodeError has the file removed; jwt.decode     *)
(* raising (line 47, before the cache is touched) is not caught there.     *)
LoadFile(st, f) ==
    LET content == st.disk[f].content
    IN  IF content = NotJson
        THEN [raised |-> FALSE,
              st |-> Store(st.access_tokens, st.refresh_tokens,
                           [st.disk EXCEPT ![f] = NoFile])]
        ELSE IF ~IsBundle(content)
        THEN [raised |-> TRUE, st |-> st]
        ELSE [raised |-> FALSE, st |-> AddTokensToInternalCache(st, content, f)]

(* OIDCSession.load_tokens_from_disk, lines 91-96, for files visited in    *)
(* the order glob returns them, up to the first error that escapes.        *)
RECURSIVE LoadFiles(_, _)
LoadFiles(st, order) ==
    IF order = <<>> THEN [raised |-> FALSE, st |-> st]
    ELSE LET r == LoadFile(st, Head(order))
         IN  IF r.raised THEN r ELSE LoadFiles(r.st, Tail(order))

GlobOrders(d) ==
    LET files == {f \in DOMAIN d : d[f].exists}
    IN  {o \in [1..Cardinality(files) -> files] :
            \A i, j \in 1..Cardinality(files) : i # j => o[i] # o[j]}

LoadTokensFromDisk ==
    /\ flow.pc = "idle"
    /\ \E order \in GlobOrders(disk) :
         LET pre == CurrentStore
             r == LoadFiles(pre, order)
         IN  /\ Len(r.st.refresh_tokens) <= MaxRefreshTokens
             /\ SetStore(r.st)
             /\ last' = Record("load_tokens_from_disk", None, FALSE, "load", <<>>,
                    IF r.raised THEN "raised" ELSE "None")
    /\ flow' = NoFlow
    /\ UNCHANGED <<now, minted>>

(* A new process: OIDCSession.__init__, lines 35-37; the files remain.     *)
NewSession ==
    /\ flow.pc = "idle"
    /\ last.op # "new_session"
    /\ access_tokens' = [aud \in Services |-> NoEntry]
    /\ refresh_tokens' = <<>>
    /\ last' = [op |-> "new_session"]
    /\ flow' = NoFlow
    /\ UNCHANGED <<disk, now, minted>>

(* The clock advances between operations and while the poll loop sleeps.   *)
Tick ==
    /\ now < MaxTime
    /\ now' = now + 1
    /\ last' = [op |-> "tick"]
    /\ UNCHANGED <<access_tokens, refresh_tokens, disk, minted, flow>>

(* Every token value the store holds, in memory or in a file.              *)
HeldTokens(st) ==
    {st.access_tokens[aud].token : aud \in {a \in Services : st.access_tokens[a].present}}
    \cup {st.refresh_tokens[i].token : i \in 1..Len(st.refresh_tokens)}
    \cup UNION {{st.disk[f].content.access_token, st.disk[f].content.refresh_token} :
                f \in {g \in DOMAIN st.disk : st.disk[g].exists}}

(* The audience of the token the device flow yields.                       *)
DeviceFlowAudience == "A"

(* start_device_flow, lines 319-352: the device authorization request (a   *)
(* decorated method, so the sweep runs) and the entry into the poll loop.  *)
StartDeviceFlow(max_polling_attempts) ==
    /\ flow.pc = "idle"
    /\ LET pre == CurrentStore
           s == RemoveExpiredTokens(pre, now)
       IN  /\ SetStore(s)
           /\ last' = Record("start_device_flow", None, FALSE, "begin",
                             <<>>, "None")
           /\ flow' = [pc |-> IF max_polling_attempts = 0 THEN "idle" ELSE "polling",
                       state |-> IF max_polling_attempts = 0 THEN "Expired"
                                 ELSE "AwaitingUserAction",
                       max_attempts |-> max_polling_attempts, attempts |-> 0,
                       success |-> FALSE, all_failed |-> TRUE,
                       held |-> HeldTokens(pre)]
    /\ UNCHANGED <<now, minted>>

(* A variant of the loop that goes on until an attempt succeeds, however   *)
(* many attempts that takes.                                               *)
AfterAttemptUnbounded(f, success, got_token) ==
    [f EXCEPT !.attempts = @ + 1,
              !.success = success,
              !.all_failed = @ /\ ~got_token,
              !.pc = IF success THEN "idle" ELSE "polling",
              !.state = IF success THEN "Authorized" ELSE "AwaitingUserAction"]

(* start_device_flow, lines 352-372, after one more pass of the loop body: *)
(* `success` is what line 356 or the except clause left.                   *)
AfterAttempt(f, success, got_token) ==
    [f EXCEPT !.attempts = @ + 1,
              !.success = success,
              !.all_failed = @ /\ ~got_token,
              !.pc = IF success \/ f.attempts + 1 >= f.max_attempts
                     THEN "idle" ELSE "polling",
              !.state = IF success THEN "Authorized"
                        ELSE IF f.attempts + 1 >= f.max_attempts THEN "Expired"
                        ELSE "AwaitingUserAction"]

(* One pass of the poll loop in which request_token raises (the token call *)
(* raises, e.g. an HTTP error while authorization is pending).             *)
PollRaises ==
    /\ flow.pc = "polling"
    /\ LET pre == CurrentStore
           s == RemoveExpiredTokens(pre, now)
       IN  /\ SetStore(s)
           /\ last' = Record("request_token", None, FALSE, "poll",
                  <<Call("token", None, NoToken, NoToken, FALSE, NoToken)>>, "raised")
           /\ flow' = AfterAttempt(flow, FALSE, FALSE)
    /\ UNCHANGED <<now, minted>>

(* request_token, line 315: what it returns for a response without a token *)
(* is the response's error; start_device_flow, lines 355-357, does not     *)
(* read the returned value.                                                *)
SuccessAfterErrorResponse == TRUE

(* One pass in which the token call returns a response holding an error    *)
(* and no token.                                                           *)
PollErrorResponse ==
    /\ flow.pc = "polling"
    /\ LET pre == CurrentStore
           s == RemoveExpiredTokens(pre, now)
       IN  /\ SetStore(s)
           /\ last' = Record("request_token", None, FALSE, "poll",
                  <<Call("token", None, NoToken, NoToken, TRUE, NoToken)>>, "error")
           /\ flow' = AfterAttempt(flow, SuccessAfterErrorResponse, FALSE)
    /\ UNCHANGED <<now, minted>>

(* One pass in which the token call returns a token bundle: request_token  *)
(* lines 309-314.                                                          *)
PollToken ==
    /\ flow.pc = "polling"
    /\ minted < MaxTokens
    /\ \E life \in Lifetimes :
         LET pre == CurrentStore
             s == RemoveExpiredTokens(pre, now)
             token == Bundle(minted + 1, DeviceFlowAudience, now + life[1], now + life[2], TRUE)
         IN  /\ SetStore(CacheToken(s, token, TRUE))
             /\ last' = Record("request_token", None, FALSE, "poll",
                    <<Call("token", None, NoToken, NoToken, TRUE, token)>>, "True")
             /\ flow' = AfterAttempt(flow, TRUE, TRUE)
    /\ minted' = minted + 1
    /\ UNCHANGED now

(* OIDCSession.request_token called by a caller that has a device code,    *)
(* with its store_to_disk argument; the response holds a token bundle or   *)
(* an error.                                                               *)
RequestToken(store_to_disk, got_token) ==
    /\ flow.pc = "idle"
    /\ LET pre == CurrentStore
           s == RemoveExpiredTokens(pre, now)
       IN  IF got_token
           THEN /\ minted < MaxTokens
                /\ \E life \in Lifetimes :
                     LET token == Bundle(minted + 1, DeviceFlowAudience, now + life[1],
                                         now + life[2], TRUE)
                     IN  /\ SetStore(CacheToken(s, token, store_to_disk))
                         /\ last' = [op |-> "request_token", service |-> None,
                                     by_refresh |-> FALSE, case |-> "call",
                                     calls |-> <<Call("token", None, NoToken, NoToken,
                                                      TRUE, token)>>,
                                     result |-> "True", store_to_disk |-> store_to_disk]
                /\ minted' = minted + 1
           ELSE /\ SetStore(s)
                /\ last' = [op |-> "request_token", service |-> None,
                            by_refresh |-> FALSE, case |-> "call",
                            calls |-> <<Call("token", None, NoToken, NoToken,
                                             TRUE, NoToken)>>,
                            result |-> "error", store_to_disk |-> store_to_disk]
                /\ minted' = minted
    /\ flow' = NoFlow
    /\ UNCHANGED now

(* The operations of one process on its session, exchanging tokens for    *)
(* the services of `requested`.                                            *)
SessionOps(requested) ==
    \/ \E service \in requested, store_to_disk \in BOOLEAN, ok \in BOOLEAN :
          ExchangeMatched(service, store_to_disk, ok)
    \/ \E service \in requested, store_to_disk \in BOOLEAN, k \in 0..MaxRefreshTokens,
          ok \in BOOLEAN : ExchangeOrphaned(service, store_to_disk, k, ok)
    \/ \E service \in requested, store_to_disk \in BOOLEAN :
          ExchangeNoRefreshToken(service, store_to_disk)
    \/ \E service \in requested, store_to_disk \in BOOLEAN, chosen \in Services,
          ok \in BOOLEAN, with_refresh \in BOOLEAN :
          ExchangeDirect(service, store_to_disk, chosen, ok, with_refresh)
    \/ \E service \in requested, store_to_disk \in BOOLEAN :
          ExchangeNoAccessToken(service, store_to_disk)
    \/ \E service \in requested : GetAccessToken(service)
    \/ Tick
    \/ StartDeviceFlow(1)
    \/ PollRaises
    \/ PollErrorResponse
    \/ PollToken

(* One process that logs in by the device flow (audience "A") and          *)
(* exchanges tokens for service "B".                                       *)
SessionNext == SessionOps({"B"})

SessionSpec == Init /\ [][SessionNext /\ UNCHANGED session_frame]_vars

(* One process that retrieves tokens by request_token and exchanges them   *)
(* for service "B", with and without storing them; the exchange and        *)
(* refresh calls succeed.                                                  *)
StoreNext ==
    \/ \E store_to_disk \in BOOLEAN, got_token \in BOOLEAN :
          RequestToken(store_to_disk, got_token)
    \/ \E store_to_disk \in BOOLEAN : ExchangeMatched("B", store_to_disk, TRUE)
    \/ \E store_to_disk \in BOOLEAN, k \in 1..MaxRefreshTokens :
          ExchangeOrphaned("B", store_to_disk, k, TRUE)
    \/ \E store_to_disk \in BOOLEAN, chosen \in Services, with_refresh \in BOOLEAN :
          ExchangeDirect("B", store_to_disk, chosen, TRUE, with_refresh)
    \/ Tick

StoreSpec == Init /\ [][StoreNext /\ UNCHANGED session_frame]_vars

(* The session over several processes: tokens written to disk by one are   *)
(* loaded by the next, or loaded again by the same.                        *)
TokenNext ==
    \/ SessionOps(Services)
    \/ LoadTokensFromDisk
    \/ NewSession

TokenSpec == Init /\ [][TokenNext /\ UNCHANGED session_frame]_vars

(* Several processes in turn: each logs in by the device flow or loads     *)
(* the files an earlier one left, exchanges tokens for service "B" and     *)
(* reads access tokens.  Every call to the collaborator succeeds or the    *)
(* poll raises.                                                            *)
ReloadNext ==
    \/ StartDeviceFlow(1)
    \/ PollToken
    \/ PollRaises
    \/ \E store_to_disk \in BOOLEAN : ExchangeMatched("B", store_to_disk, TRUE)
    \/ \E chosen \in Services, with_refresh \in BOOLEAN :
          ExchangeDirect("B", TRUE, chosen, TRUE, with_refresh)
    \/ \E service \in Services : GetAccessToken(service)
    \/ Tick
    \/ LoadTokensFromDisk
    \/ NewSession

ReloadSpec == Init /\ [][ReloadNext /\ UNCHANGED session_frame]_vars

(* Processes that start with a token directory in which each file is a    *)
(* saved bundle or is corrupt, and load it.                                *)
File(content) == [exists |-> TRUE, content |-> content]

StoredFiles(f) ==
    {NoFile, File(NotJson), File(NotJwt)}
    \cup {File(Bundle(f, aud, 1, 1, TRUE)) : aud \in Services}

CorruptInit ==
    /\ PlanInit
    /\ access_tokens = [aud \in Services |-> NoEntry]
    /\ refresh_tokens = <<>>
    /\ disk \in [1..MaxTokens -> UNION {StoredFiles(f) : f \in 1..MaxTokens}]
    /\ \A f \in 1..MaxTokens : disk[f] \in StoredFiles(f)
    /\ now = 0
    /\ minted = MaxTokens
    /\ last = [op |-> "init"]
    /\ flow = NoFlow
    /\ auth = NoRequest
    /\ peer = NoPeer

CorruptNext ==
    \/ LoadTokensFromDisk
    \/ NewSession
    \/ Tick

CorruptSpec == CorruptInit /\ [][CorruptNext /\ UNCHANGED session_frame]_vars

(* The device flow alone, for any number of polling attempts.              *)
DeviceFlowNext ==
    \/ \E n \in 0..MaxPollAttempts : StartDeviceFlow(n)
    \/ PollRaises
    \/ PollErrorResponse
    \/ PollToken
    \/ Tick

DeviceFlowSpec == Init /\ [][DeviceFlowNext /\ UNCHANGED session_frame]_vars

(* The for loop of start_device_flow goes on: each pass ends (the token    *)
(* call returns or raises, the sleep ends) and the next one begins.        *)
PollPass == (PollRaises \/ PollErrorResponse \/ PollToken) /\ UNCHANGED session_frame

DeviceFlowLiveSpec == DeviceFlowSpec /\ WF_vars(PollPass)

(***************************************************************************)
(* Specification of save and load alone: the plan is any plan a caller     *)
(* can have built (append_step takes is_done, the cursor has a setter).    *)
(***************************************************************************)
AnySteps ==
    UNION {[1..n -> {Step(s, f, a, d) : s \in Sections, f \in Callables,
                                        a \in Arguments, d \in BOOLEAN}] :
           n \in 0..MaxRoundTripSteps}

RoundTripInit ==
    /\ steps \in AnySteps
    /\ current_step_number \in 0..Len(steps)
    /\ plan_files = [p \in PlanPaths |-> NoFile]
    /\ run_ctx = Idle
    /\ loaded = NotLoaded
    /\ TokenInit

RoundTripNext ==
    \/ \E p \in PlanPaths : Save(p)
    \/ \E p \in PlanPaths : Load(p)

RoundTripSpec == RoundTripInit /\ [][RoundTripNext /\ UNCHANGED token_vars]_vars

(* C2: load(save(plan)) yields a plan with the same steps in the same      *)
(* order (same section, operation, arguments and is_done for each) and the *)
(* same cursor: whenever load reads a file that holds the save of the      *)
(* current plan, it succeeds and the plan it returns equals the current    *)
(* plan.                                                                   *)
C2_RoundTrip ==
    [][\A p \in PlanPaths :
        (Load(p) /\ plan_files[p] = [exists |-> TRUE,
                        content |-> SaveOutput(current_step_number, steps)])
        => (/\ loaded'.status = "ok"
            /\ steps' = steps
            /\ current_step_number' = current_step_number)]_vars

(***************************************************************************)
(*                     PROPERTIES OF THE PLAN (PlanSpec)                   *)
(***************************************************************************)

(* A run without a section name, started at cursor 0 on a plan none of     *)
(* whose steps is done, has ended because a step's operation raised or was *)
(* interrupted.                                                            *)
FreshRunFailed ==
    /\ run_ctx.pc = "exited"
    /\ run_ctx.raised \in {"Exception", "KeyboardInterrupt"}
    /\ run_ctx.section_name = None
    /\ run_ctx.start_cursor = 0
    /\ \A i \in 1..Len(run_ctx.start_steps) : ~run_ctx.start_steps[i].is_done

(* C1: when run() (no section) from cursor 0 on a plan of N steps fails in *)
(* the operation of step k after steps 0..k-1 returned, the recovery file  *)
(* holds all N steps in their original order, steps 0..k-1 done, steps     *)
(* k..N-1 not done, and cursor k.                                          *)
C1_FailureDump ==
    FreshRunFailed =>
        LET k == Len(run_ctx.returns)
            N == Len(run_ctx.start_steps)
            dump == plan_files[DumpPath]
        IN  /\ run_ctx.invoked = [i \in 1..(k + 1) |-> i - 1]
            /\ dump.exists
            /\ dump.content.current_step_number = k
            /\ Len(dump.content.steps) = N
            /\ \A i \in 1..N :
                  dump.content.steps[i] =
                      SaveStep([run_ctx.start_steps[i] EXCEPT !.is_done = (i <= k)])

(* A plan of three steps fails in its last step.                           *)
C1_Witness ==
    /\ FreshRunFailed
    /\ Len(run_ctx.start_steps) = 3
    /\ Len(run_ctx.returns) = 2

(***************************************************************************)
(*                   PROPERTIES OF THE TOKEN SESSION                       *)
(***************************************************************************)

(* The operations that the expiry sweep guards.  The clock has not moved   *)
(* since the last of them while `last` still names it.                     *)
SweptOperations ==
    {"exchange_token", "get_access_token", "start_device_flow", "request_token"}

(* The tokens a file holds. *)
FileTokens(content) == {content.access_token, content.refresh_token} \ {NoToken}

(* C3: after the sweep no access or refresh token whose expiry has passed  *)
(* remains in memory, and no file remains that holds an expired access     *)
(* token and no unexpired token, whether the file holds an access and      *)
(* refresh pair or an access token alone.                                  *)
C3_SweepRemovesExpired ==
    last.op \in SweptOperations =>
        /\ \A aud \in Services :
              access_tokens[aud].present => access_tokens[aud].expires_at >= now
        /\ \A i \in 1..Len(refresh_tokens) : refresh_tokens[i].expires_at >= now
        /\ \A f \in DOMAIN disk :
              (disk[f].exists /\ disk[f].content.access_token.exp < now)
                  => \E tok \in FileTokens(disk[f].content) : tok.exp >= now

(* The files an exchange removes because it has used up their refresh      *)
(* token (exchange_token, lines 174 and 199) rather than by the sweep.     *)
ConsumedFiles(rec) ==
    IF rec.op = "exchange_token"
    THEN {rec.calls[j].refresh_token.id :
            j \in {i \in 1..Len(rec.calls) :
                      rec.calls[i].ok /\ rec.calls[i].refresh_token # NoToken}}
    ELSE {}

(* C4: the sweep never deletes a file while a token stored in it, access   *)
(* or refresh, is unexpired: in every step, a file that disappears without *)
(* having been consumed by an exchange held only expired tokens.           *)
C4_SiblingProtection ==
    [][\A f \in DOMAIN disk :
          (disk[f].exists /\ ~disk'[f].exists /\ f \notin ConsumedFiles(last'))
              => \A tok \in FileTokens(disk[f].content) : tok.exp < now]_vars

(* After a sweep a file is still there whose access token has expired and  *)
(* whose refresh token has not.                                            *)
C4_Witness ==
    /\ last.op = "get_access_token"
    /\ \E f \in DOMAIN disk :
          /\ disk[f].exists
          /\ disk[f].content.access_token.exp < now
          /\ disk[f].content.refresh_token # NoToken
          /\ disk[f].content.refresh_token.exp >= now

(* A memory entry is backed when its path is "INTERNAL" or names a file    *)
(* that exists and holds the entry's token.                                *)
EntryIsBacked(path_on_disk, token) ==
    \/ path_on_disk = Internal
    \/ /\ disk[path_on_disk].exists
       /\ token \in FileTokens(disk[path_on_disk].content)

(* C5: in every state reached by loads, exchanges, device flows and        *)
(* sweeps, every token entry in memory is memory-only or points at an      *)
(* existing file that holds its token.                                     *)
C5_MemoryDiskConsistent ==
    /\ \A aud \in Services :
          access_tokens[aud].present =>
              EntryIsBacked(access_tokens[aud].path_on_disk, access_tokens[aud].token)
    /\ \A i \in 1..Len(refresh_tokens) :
          EntryIsBacked(refresh_tokens[i].path_on_disk, refresh_tokens[i].token)

(* exchange_token(service, by_refresh) is the operation of the step.       *)
IsExchange(rec, service, by_refresh) ==
    /\ rec.op = "exchange_token"
    /\ rec.service = service
    /\ rec.by_refresh = by_refresh

(* Every call the operation made to the authentication client succeeded.   *)
CallsSucceeded(rec) == \A j \in 1..Len(rec.calls) : rec.calls[j].ok

(* An unexpired access token with this value is cached.                    *)
HasLiveAccessToken(token) ==
    \E aud \in Services :
        /\ access_tokens[aud].present
        /\ access_tokens[aud].expires_at >= now
        /\ access_tokens[aud].token = token

(* The unexpired refresh entries, in list order.                           *)
LiveRefreshTokens == SelectSeq(refresh_tokens, LAMBDA e : e.expires_at >= now)

(* Those of them whose associated access token is cached unexpired, and    *)
(* the first of a set of entries in list order.                            *)
MatchedEntries ==
    {i \in 1..Len(LiveRefreshTokens) :
        HasLiveAccessToken(LiveRefreshTokens[i].associated_access_token)}

FirstOf(entries) == CHOOSE i \in entries : \A j \in entries : i <= j

(* C6: with an unexpired access token for audience A and an unexpired      *)
(* refresh token associated with its value, both persisted, and a          *)
(* successful exchange call, exchange(B, byRefresh) makes no refresh call, *)
(* makes one exchange call with exactly that pair, returns success,        *)
(* removes every access entry holding the consumed value and the consumed  *)
(* refresh entry from memory (the other refresh entries stay, in order)    *)
(* and their file from disk, and caches the new access token for B and     *)
(* the new refresh token.                                                  *)
C6_ExchangeMatched ==
    [][(/\ IsExchange(last', "B", TRUE)
        /\ CallsSucceeded(last')
        /\ MatchedEntries # {}
        /\ LiveRefreshTokens[FirstOf(MatchedEntries)].path_on_disk # Internal)
       => LET m == FirstOf(MatchedEntries)
              r == LiveRefreshTokens[m]
              calls == last'.calls
          IN  /\ Len(calls) = 1
              /\ calls[1].op = "exchange"
              /\ calls[1].service = "B"
              /\ calls[1].access_token = r.associated_access_token
              /\ calls[1].refresh_token = r.token
              /\ last'.result = "True"
              /\ \A aud \in Services :
                    access_tokens'[aud].present =>
                        access_tokens'[aud].token # r.associated_access_token
              /\ Len(refresh_tokens') = Len(LiveRefreshTokens)
              /\ \A i \in 1..(Len(LiveRefreshTokens) - 1) :
                    refresh_tokens'[i] = LiveRefreshTokens[IF i < m THEN i ELSE i + 1]
              /\ refresh_tokens'[Len(refresh_tokens')].token = calls[1].response.refresh_token
              /\ ~disk'[r.path_on_disk].exists
              /\ access_tokens'["B"].present
              /\ access_tokens'["B"].token = calls[1].response.access_token]_vars

(* A matched exchange for B has consumed the pair of audience A.           *)
C6_Witness ==
    /\ IsExchange(last, "B", TRUE)
    /\ last.case = "matched"
    /\ last.result = "True"
    /\ last.calls[1].access_token.aud = "A"
    /\ last.calls[1].refresh_token.id \in DOMAIN disk
    /\ ~access_tokens["A"].present
    /\ access_tokens["B"].present

(* C7: with at least one unexpired refresh token and no cached access      *)
(* token equal to any refresh token's associated access token, and the     *)
(* authentication client succeeding, exchange(B, byRefresh) calls refresh  *)
(* and then exchange, the exchange with the pair the refresh returned,     *)
(* removes the old refresh token from memory and disk, and ends with an    *)
(* access token for B and a new refresh token in the store.                *)
C7_ExchangeOrphaned ==
    [][(/\ IsExchange(last', "B", TRUE)
        /\ CallsSucceeded(last')
        /\ LiveRefreshTokens # <<>>
        /\ MatchedEntries = {})
       => LET old == LiveRefreshTokens[1].token
              calls == last'.calls
          IN  /\ Len(calls) = 2
              /\ calls[1].op = "refresh"
              /\ calls[1].refresh_token = old
              /\ calls[2].op = "exchange"
              /\ calls[2].access_token = calls[1].response.access_token
              /\ calls[2].refresh_token = calls[1].response.refresh_token
              /\ \A i \in 1..Len(refresh_tokens') : refresh_tokens'[i].token # old
              /\ \A f \in DOMAIN disk :
                    disk'[f].exists => old \notin FileTokens(disk'[f].content)
              /\ last'.result = "True"
              /\ access_tokens'["B"].present
              /\ access_tokens'["B"].token = calls[2].response.access_token
              /\ \E i \in 1..Len(refresh_tokens') :
                    refresh_tokens'[i].token = calls[2].response.refresh_token]_vars

(* What the expiry sweep may do to the files: a file is left as it was or  *)
(* is deleted, and a deleted file held only expired tokens.                *)
OnlyExpiredFilesRemoved ==
    \A f \in DOMAIN disk :
        \/ disk'[f] = disk[f]
        \/ /\ disk[f].exists
           /\ ~disk'[f].exists
           /\ \A tok \in FileTokens(disk[f].content) : tok.exp < now

NoAccessTokenCached == \A aud \in Services : ~access_tokens[aud].present

FlowEnded == flow.pc = "idle" /\ flow.state \in {"Authorized", "Expired"}

(* C10: for every number n >= 0 of polling attempts allowed, if no attempt *)
(* retrieves a token then the poll loop makes exactly n attempts, ends in  *)
(* Expired, and the store holds no token it did not hold when the device   *)
(* flow started.                                                           *)
C10_DeviceFlowExhaustion ==
    (FlowEnded /\ flow.all_failed) =>
        /\ flow.attempts = flow.max_attempts
        /\ flow.state = "Expired"
        /\ HeldTokens(CurrentStore) \subseteq flow.held

(* C11: the poll loop ends in Authorized only if some token call returned  *)
(* a token bundle and that bundle is cached; an attempt whose response     *)
(* holds an error and no token is a failed attempt, never a success.       *)
C11_AuthorizedOnlyWithToken ==
    (FlowEnded /\ flow.state = "Authorized") =>
        /\ ~flow.all_failed
        /\ \E tok \in HeldTokens(CurrentStore) \ flow.held : tok.kind = "access"

(***************************************************************************)
(*                  FURTHER PROPERTIES OF THE PLAN (PlanSpec)              *)
(***************************************************************************)

(* Plan.run has been called and has not been followed by another           *)
(* operation on the plan.                                                  *)
InRun == run_ctx.pc \in {"running", "returned", "exited"}

(* C12: run(section_name = S) invokes only steps whose section is S, in    *)
(* index order; steps of other sections, between or after the steps of S,  *)
(* are not invoked.                                                        *)
C12_SectionRestrictedRun ==
    (InRun /\ run_ctx.section_name # None) =>
        /\ \A i \in 1..Len(run_ctx.invoked) :
              steps[run_ctx.invoked[i] + 1].section_name = run_ctx.section_name
        /\ \A i, j \in 1..Len(run_ctx.invoked) :
              i < j => run_ctx.invoked[i] < run_ctx.invoked[j]

(***************************************************************************)
(* The life of a plan over several processes: steps are appended not done, *)
(* the plan is run, saved and loaded; after run has exited on a failure a  *)
(* new process starts with an empty plan and the files the old one left.   *)
(***************************************************************************)

(* A new process: Plan.__init__ *)
NewPlan ==
    /\ run_ctx.pc = "exited"
    /\ steps' = <<>>
    /\ current_step_number' = 0
    /\ run_ctx' = Idle
    /\ loaded' = NotLoaded
    /\ UNCHANGED plan_files

(* The plans of PlanLifeSpec hold steps of os.unlink, which load resolves, *)
(* and are saved to and loaded from the path of the recovery file.         *)
PlanLifeNext ==
    \/ \E s \in Sections :
          Len(steps) < MaxLifeSteps /\ AppendStep(s, OsUnlink, UploadArguments, FALSE)
    \/ Clear
    \/ Save(DumpPath)
    \/ Load(DumpPath)
    \/ \E s \in Sections \cup {None} : RunStart(s, FALSE)
    \/ RunStepReturns
    \/ RunStepRaises
    \/ RunStepIndexError
    \/ NewPlan

PlanLifeSpec == Init /\ [][PlanLifeNext /\ UNCHANGED token_vars]_vars

(* Every step below the cursor is flagged done.                            *)
PrefixDone ==
    \A i \in 1..Len(steps) : i <= current_step_number => steps[i].is_done

(* The step is one of run(section_name = S) in which the cursor passes     *)
(* over a step of another section (run_next_step, lines 133-137).          *)
PassesOverOtherSection ==
    /\ run_ctx.pc = "running"
    /\ run_ctx.section_name # None
    /\ \E i \in 1..Len(steps) :
          /\ current_step_number < i
          /\ i <= current_step_number'
          /\ steps[i].section_name # run_ctx.section_name
          /\ ~steps'[i].is_done

(* C13 as stated: in every state reached by append_step (is_done false),   *)
(* run(), run(section), save and load, every step below the cursor is      *)
(* flagged done.                                                           *)
C13_PrefixDone == PrefixDone

(* Every saved plan has every step below its cursor flagged done.         *)
SavedPrefixDone ==
    \A p \in PlanPaths :
        plan_files[p].exists =>
            \A i \in 1..Len(plan_files[p].content.steps) :
                i <= plan_files[p].content.current_step_number
                    => plan_files[p].content.steps[i].is_done

(* C13: append_step, run() without a section, save, load of a saved plan   *)
(* and clear keep every step below the cursor flagged done, in the plan in *)
(* memory and in every saved plan; run(section) breaks this only by        *)
(* passing over steps of other sections, which stay not done below the     *)
(* cursor.                                                                 *)
C13_PrefixDoneUnlessPassedOver ==
    [][(PrefixDone /\ SavedPrefixDone)
          => ((PrefixDone' /\ SavedPrefixDone') \/ PassesOverOtherSection)]_vars

(* A plan that was dumped after its first step is loaded by a new process. *)
C13_Witness ==
    /\ loaded.status = "ok"
    /\ current_step_number >= 1
    /\ Len(steps) = 2
    /\ PrefixDone

(* C14: within one run the operation of the failing step is invoked        *)
(* exactly once, and once it has failed nothing more is invoked in that    *)
(* run: the run has ended, and what follows is another process.            *)
C14_HaltOnFirstFailure ==
    [][/\ (InRun /\ run_ctx.raised # None)
              => (run_ctx' = run_ctx \/ run_ctx'.pc = "idle")
       /\ (/\ InRun'
           /\ run_ctx' # run_ctx
           /\ run_ctx'.raised \in {"Exception", "KeyboardInterrupt"})
              => /\ run_ctx'.pc = "exited"
                 /\ run_ctx'.invoked = Append(run_ctx.invoked, run_ctx'.raised_at)
                 /\ \A i \in 1..Len(run_ctx.invoked) :
                       run_ctx.invoked[i] # run_ctx'.raised_at]_vars

(* The second step of a run has failed after the first returned.           *)
C14_Witness ==
    /\ run_ctx.pc = "exited"
    /\ run_ctx.raised = "Exception"
    /\ run_ctx.invoked = <<0, 1>>
    /\ run_ctx.returns = <<"returned">>

(***************************************************************************)
(* FURTHER PROPERTIES OF THE TOKEN STORE                                   *)
(***************************************************************************)

(* C15: get_access_token returns either nothing or the token of the entry  *)
(* cached for the audience asked for, and that entry's expiry has not      *)
(* passed at the time of the call, whatever was loaded from disk before.   *)
C15_NoExpiredTokenReturned ==
    (last.op = "get_access_token" /\ last.result # NoToken) =>
        /\ access_tokens[last.service].present
        /\ access_tokens[last.service].token = last.result
        /\ last.result.aud = last.service
        /\ access_tokens[last.service].expires_at >= now
        /\ last.result.exp >= now

(* Nothing is returned for an audience whose access token, held in a file  *)
(* with a refresh token still valid, has expired; the file was loaded into *)
(* this store, where its refresh token now is twice.                       *)
C15_Witness ==
    /\ last.op = "get_access_token"
    /\ last.result = NoToken
    /\ Len(refresh_tokens) = 2
    /\ refresh_tokens[1] = refresh_tokens[2]
    /\ \E f \in DOMAIN disk :
          /\ disk[f].exists
          /\ refresh_tokens[1].path_on_disk = f
          /\ disk[f].content.access_token.aud = last.service
          /\ disk[f].content.access_token.exp < now

(* C16: the store holds one access-token entry per audience, filed under   *)
(* the audience of its token, and when an exchange or the device flow      *)
(* caches a token for an audience whose entry is still valid, the entry    *)
(* holds the new token and the file backing the old entry is gone.         *)
C16_UniqueAndSuperseded ==
    [][/\ \A aud \in Services :
             access_tokens'[aud].present => access_tokens'[aud].token.aud = aud
       /\ \A aud \in Services :
             (/\ last'.op \in {"exchange_token", "request_token"}
              /\ access_tokens[aud].present
              /\ access_tokens[aud].expires_at >= now
              /\ access_tokens'[aud].present
              /\ access_tokens'[aud].token # access_tokens[aud].token)
                 => \/ access_tokens[aud].path_on_disk = Internal
                    \/ ~disk'[access_tokens[aud].path_on_disk].exists]_vars

(***************************************************************************)
(* Specification of a host that builds its plans from the callables of     *)
(* DataAPI.upload and loads a plan file that another program saved.        *)
(***************************************************************************)

ForeignPath == "plan.json"

(* Another program saves a one-step plan for any callable (Plan.save).     *)
WrittenElsewhere ==
    /\ \E f \in Callables :
          plan_files' = WriteFile(plan_files, ForeignPath,
              SaveOutput(0, <<Step("upload", f, UploadArguments, FALSE)>>))
    /\ UNCHANGED <<steps, current_step_number, run_ctx, loaded>>

DispatchNext ==
    \/ \E s \in Sections, f \in UploadCallables :
          Len(steps) < MaxLifeSteps /\ AppendStep(s, f, UploadArguments, FALSE)
    \/ WrittenElsewhere
    \/ Load(ForeignPath)
    \/ RunStart(None, FALSE)
    \/ RunStepReturns
    \/ RunStepRaises
    \/ RunStepIndexError

DispatchSpec == Init /\ [][DispatchNext /\ UNCHANGED token_vars]_vars

(* What a callable is, whichever object it is bound to.                    *)
Operation(fqn) == <<fqn.module, fqn.self_class, fqn.name>>

(* The operations the host itself hands to append_step; the code has no    *)
(* other way of making an operation known to a plan.                       *)
HostOperations == {Operation(f) : f \in UploadCallables}

(* C17: a plan obtained from load holds, and a run invokes, only           *)
(* operations of the host; a file naming another module, class or function *)
(* does not get that code resolved, instantiated or invoked.               *)
C17_ClosedWorldDispatch ==
    /\ loaded.status = "ok" =>
          \A i \in 1..Len(steps) : Operation(steps[i].fqn) \in HostOperations
    /\ InRun =>
          \A i \in 1..Len(run_ctx.invoked) :
             Operation(steps[run_ctx.invoked[i] + 1].fqn) \in HostOperations

(* C18: load_tokens_from_disk raises nothing; every file that is not a     *)
(* decodable bundle is gone afterwards; every other file is still there    *)
(* with its refresh token cached and an access token cached for its        *)
(* audience from a file of that audience, in whatever order glob lists the *)
(* files.                                                                  *)
C18_CorruptFilesTolerated ==
    [][last'.op = "load_tokens_from_disk" =>
          /\ last'.result # "raised"
          /\ \A f \in DOMAIN disk :
                disk[f].exists =>
                   IF IsBundle(disk[f].content)
                   THEN /\ disk'[f] = disk[f]
                        /\ \E i \in 1..Len(refresh_tokens') :
                              /\ refresh_tokens'[i].token = disk[f].content.refresh_token
                              /\ refresh_tokens'[i].path_on_disk = f
                        /\ LET aud == disk[f].content.access_token.aud
                           IN  /\ access_tokens'[aud].present
                               /\ \E g \in DOMAIN disk :
                                     /\ disk[g].exists
                                     /\ IsBundle(disk[g].content)
                                     /\ access_tokens'[aud].token = disk[g].content.access_token
                                     /\ access_tokens'[aud].path_on_disk = g
                   ELSE ~disk'[f].exists]_vars

(* A step of Plan.clear, or the empty plan of a new process.               *)
ClearsPlan == steps' = <<>> /\ current_step_number' = 0

(* A step of Plan.load: the caller goes on with the plan object that load  *)
(* built, whose cursor is the saved one.                                   *)
TakesLoadedPlan ==
    /\ loaded'.status = "ok"
    /\ run_ctx' = Idle
    /\ current_step_number' = plan_files[loaded'.path].content.current_step_number

(* C19: while a run goes on the cursor never decreases, and the cursor of  *)
(* a plan is lowered by no operation but clear, which sets it to 0 and     *)
(* empties the steps.                                                      *)
C19_CursorMonotone ==
    [][/\ (run_ctx.pc = "running" /\ InRun')
             => current_step_number' >= current_step_number
       /\ (current_step_number' < current_step_number)
             => (ClearsPlan \/ TakesLoadedPlan)]_vars

(* In a run of one section the cursor has passed over the first step and   *)
(* the second has been run.                                                *)
C19_Witness ==
    /\ InRun
    /\ run_ctx.section_name # None
    /\ run_ctx.start_cursor = 0
    /\ run_ctx.invoked = <<1>>
    /\ current_step_number = 2

(* A run of the whole plan, not a dry run, that began at cursor 0 on a     *)
(* plan with steps and has returned: no operation raised.                  *)
WholeRunReturned ==
    /\ run_ctx.pc = "returned"
    /\ run_ctx.section_name = None
    /\ ~run_ctx.dry_run
    /\ run_ctx.start_cursor = 0
    /\ run_ctx.start_steps # <<>>

(* C20: when every operation succeeds, run() from cursor 0 on a plan of N  *)
(* steps invokes the steps 0..N-1 once each in that order, leaves every    *)
(* step done and the cursor at N, and writes no recovery file.             *)
C20_SuccessfulRun ==
    WholeRunReturned =>
        /\ Len(steps) = Len(run_ctx.start_steps)
        /\ run_ctx.invoked = [i \in 1..Len(steps) |-> i - 1]
        /\ Len(run_ctx.returns) = Len(steps)
        /\ \A i \in 1..Len(steps) : steps[i].is_done
        /\ current_step_number = Len(steps)
        /\ ~plan_files[DumpPath].exists

C20_Witness ==
    /\ WholeRunReturned
    /\ Len(steps) = MaxSteps
    /\ \E i \in 1..Len(steps) : ~run_ctx.start_steps[i].is_done

(***************************************************************************)
(* FURTHER PROPERTIES OF THE DEVICE FLOW                                   *)
(***************************************************************************)

(* While the loop polls no attempt has succeeded and attempts are left;    *)
(* when it has ended it has made no more attempts than allowed.            *)
PollWithinBounds ==
    /\ flow.pc = "polling" => (~flow.success /\ flow.attempts < flow.max_attempts)
    /\ FlowEnded => flow.attempts <= flow.max_attempts

(* C21: whatever the attempts do, the poll loop makes at most              *)
(* max_polling_attempts token calls, makes none after a successful one,    *)
(* and ends, in Authorized or in Expired.                                  *)
C21_PollBounded ==
    /\ []PollWithinBounds
    /\ (flow.pc = "polling") ~> FlowEnded

(* The loop has ended in Authorized on its last allowed attempt, after     *)
(* failed ones.                                                            *)
C21_Witness ==
    /\ FlowEnded
    /\ flow.state = "Authorized"
    /\ flow.max_attempts = MaxPollAttempts
    /\ flow.attempts = MaxPollAttempts
    /\ ~flow.all_failed

(***************************************************************************)
(* FURTHER PROPERTIES OF THE EXCHANGE                                      *)
(***************************************************************************)

(* The token values cached in memory.                                      *)
CachedTokens ==
    {access_tokens[aud].token : aud \in {a \in Services : access_tokens[a].present}}
    \cup {refresh_tokens[i].token : i \in 1..Len(refresh_tokens)}

(* The call passes tokens taken from the cache: a refresh call, or the     *)
(* exchange call of the matched and of the direct case (the exchange call  *)
(* of the orphaned case passes what the refresh call returned).            *)
PassesCachedTokens(rec, call) ==
    call.op = "refresh" \/ rec.case \in {"matched", "direct"}

(* C22: every access token and refresh token that an exchange passes to    *)
(* the exchange or refresh call of the authentication client is unexpired  *)
(* when the exchange starts, and those taken from the cache were cached.   *)
C22_NoExpiredTokenPresented ==
    [][last'.op = "exchange_token" =>
          \A i \in 1..Len(last'.calls) :
             LET call == last'.calls[i]
                 passed == {call.access_token, call.refresh_token} \ {NoToken}
             IN  /\ \A tok \in passed : tok.exp >= now
                 /\ PassesCachedTokens(last', call) => passed \subseteq CachedTokens]_vars

(* An exchange by refresh has called refresh and exchange at a time when   *)
(* a file still holds the expired access token the refresh token came with.*)
C22_Witness ==
    /\ IsExchange(last, "B", TRUE)
    /\ last.case = "orphaned"
    /\ Len(last.calls) = 2
    /\ \E f \in DOMAIN disk :
          disk[f].exists /\ disk[f].content.access_token.exp < now

(* The store_to_disk argument of the call recorded: the poll loop of       *)
(* start_device_flow leaves it at its default (line 299).                  *)
StoreToDiskOf(rec) ==
    IF "store_to_disk" \in DOMAIN rec THEN rec.store_to_disk ELSE TRUE

(* The files the step has created.                                         *)
NewFiles == {f \in DOMAIN disk : disk'[f].exists /\ ~disk[f].exists}

(* After the step the access entry of the bundle's audience holds its      *)
(* access token, and the last refresh entry its refresh token if it has    *)
(* one, both with this storage location.                                   *)
CachedAt(token, path) ==
    /\ access_tokens'[token.access_token.aud].present
    /\ access_tokens'[token.access_token.aud].token = token.access_token
    /\ access_tokens'[token.access_token.aud].path_on_disk = path
    /\ token.refresh_token # NoToken =>
          /\ refresh_tokens' # <<>>
          /\ refresh_tokens'[Len(refresh_tokens')].token = token.refresh_token
          /\ refresh_tokens'[Len(refresh_tokens')].associated_access_token
                = token.access_token
          /\ refresh_tokens'[Len(refresh_tokens')].path_on_disk = path

(* C23: a successful exchange or token retrieval with store_to_disk false  *)
(* creates no file and caches the new entries with the memory-only         *)
(* sentinel; with store_to_disk true it creates exactly one file, holding  *)
(* the bundle, and the new entries reference it.                           *)
C23_StoreToDisk ==
    [][(last'.op \in {"exchange_token", "request_token"} /\ last'.result = "True")
       => LET token == last'.calls[Len(last'.calls)].response
          IN  IF StoreToDiskOf(last')
              THEN \E f \in DOMAIN disk :
                      /\ NewFiles = {f}
                      /\ disk'[f].content = token
                      /\ CachedAt(token, f)
              ELSE /\ NewFiles = {}
                   /\ CachedAt(token, Internal)]_vars

(* An exchange and a token retrieval have succeeded with store_to_disk     *)
(* false: the entries of both bundles are held in memory only.             *)
C23_Witness ==
    /\ last.op = "exchange_token"
    /\ last.result = "True"
    /\ ~last.store_to_disk
    /\ access_tokens["B"].present
    /\ access_tokens["B"].path_on_disk = Internal
    /\ access_tokens["A"].present
    /\ access_tokens["A"].path_on_disk = Internal
    /\ \A f \in DOMAIN disk : ~disk[f].exists

(* The steps a run has invoked are those from the cursor it began at, one  *)
(* after the other.                                                        *)
InvokedFromStart ==
    run_ctx.invoked = [i \in 1..Len(run_ctx.invoked) |-> run_ctx.start_cursor + i - 1]

(* A run of the whole plan on a plan as load returned it.                  *)
RunOfLoadedPlan ==
    /\ InRun
    /\ loaded.status = "ok"
    /\ run_ctx.section_name = None

C25_RunReturnsResults ==
    (run_ctx.pc = "returned" /\ ~run_ctx.dry_run) =>
        /\ Len(run_ctx.returns) = Len(run_ctx.invoked)
        /\ run_ctx.result = ListValue(run_ctx.returns)

(* C26: a dry run invokes no operation and leaves the plan as it was: the  *)
(* same steps with the same is_done flags and the same cursor.             *)
C26_DryRunDoesNothing ==
    (InRun /\ run_ctx.dry_run) =>
        /\ run_ctx.invoked = <<>>
        /\ steps = run_ctx.start_steps
        /\ current_step_number = run_ctx.start_cursor

(***************************************************************************)
(* FURTHER PROPERTIES OF THE SWEEP                                         *)
(***************************************************************************)

(* The operations whose only effect on the caches is that of the sweep.    *)
SweepsOnly(rec) ==
    \/ rec.op \in {"get_access_token", "start_device_flow"}
    \/ rec.op = "exchange_token" /\ rec.calls = <<>>

(* `post` holds entries of `pre` in the order they have in `pre`.          *)
IsSubsequence(post, pre) ==
    \E at \in [1..Len(post) -> 1..Len(pre)] :
        /\ \A i \in 1..Len(post) : post[i] = pre[at[i]]
        /\ \A i, j \in 1..Len(post) : i < j => at[i] < at[j]

(* C27: the sweep removes from memory the expired entries and no other:    *)
(* every access entry and refresh entry whose expiry has not passed is     *)
(* there afterwards, unchanged in token, association and storage location, *)
(* and the refresh entries keep their order.                               *)
C27_SweepPreservesLive ==
    [][SweepsOnly(last') =>
          /\ \A aud \in Services :
                IF access_tokens[aud].present /\ access_tokens[aud].expires_at >= now
                THEN access_tokens'[aud] = access_tokens[aud]
                ELSE ~access_tokens'[aud].present
          /\ \A i \in 1..Len(refresh_tokens') : refresh_tokens'[i].expires_at >= now
          /\ Len(refresh_tokens')
                = Cardinality({i \in 1..Len(refresh_tokens) :
                                  refresh_tokens[i].expires_at >= now})
          /\ IsSubsequence(refresh_tokens', refresh_tokens)]_vars

(* A sweep has taken the expired one of two refresh tokens and the expired *)
(* access token out of memory, and left the valid refresh token.           *)
C27_Witness ==
    /\ last.op = "get_access_token"
    /\ Len(refresh_tokens) = 1
    /\ \E f \in DOMAIN disk :
          /\ disk[f].exists
          /\ disk[f].content.refresh_token # NoToken
          /\ disk[f].content.refresh_token.exp < now
          /\ disk[f].content.refresh_token # refresh_tokens[1].token
    /\ \E f \in DOMAIN disk :
          /\ disk[f].exists
          /\ disk[f].content.access_token.exp < now
          /\ disk[f].content.refresh_token = refresh_tokens[1].token

(***************************************************************************)
(* FAILING EXCHANGES                                                       *)
(***************************************************************************)

(* An exchange by refresh for "B" in the matched case whose exchange call  *)
(* failed.                                                                 *)
FailedMatched(rec) ==
    /\ IsExchange(rec, "B", TRUE)
    /\ rec.case = "matched"
    /\ ~CallsSucceeded(rec)

FailedOrphanedExchange(rec) ==
    /\ IsExchange(rec, "B", TRUE)
    /\ rec.case = "orphaned"
    /\ Len(rec.calls) >= 2
    /\ rec.calls[Len(rec.calls)].op = "exchange"
    /\ ~rec.calls[Len(rec.calls)].ok
    /\ rec.calls[Len(rec.calls) - 1].op = "refresh"
    /\ rec.calls[Len(rec.calls) - 1].ok

(* C29: in the orphaned byRefresh case, when the refresh call succeeds and *)
(* the exchange call then fails, the store still holds a usable refresh    *)
(* token afterwards: the one that was refreshed or the one the refresh     *)
(* call minted, unexpired.                                                 *)
C29_NoCredentialLoss ==
    [][FailedOrphanedExchange(last')
       => LET n == Len(last'.calls)
              old == last'.calls[n - 1].refresh_token
              fresh == last'.calls[n].refresh_token
          IN  \E i \in 1..Len(refresh_tokens') :
                 /\ refresh_tokens'[i].token \in {old, fresh}
                 /\ RefreshTokenIsValid(refresh_tokens'[i], now')]_vars

(* exchange_token(B, by_refresh) has taken the orphaned branch.            *)
OrphanedExchange(rec) ==
    /\ IsExchange(rec, "B", TRUE)
    /\ rec.case = "orphaned"

(* The refresh calls of the step, which come before any exchange call.     *)
RefreshCallsOf(rec) == SelectSeq(rec.calls, LAMBDA c : c.op = "refresh")

(* The loop of lines 185-211 as the step shows it: the refresh calls are   *)
(* made for the unexpired refresh tokens in cache order, every call before *)
(* the last one has failed, and when the last one succeeded its refresh    *)
(* token is the one removed, the others staying in place and in order.     *)
TriedInTurn ==
    LET rt == LiveRefreshTokens
        calls == last'.calls
        n == Len(RefreshCallsOf(last'))
    IN  /\ n >= 1
        /\ n <= Len(rt)
        /\ \A i \in 1..n :
              /\ calls[i].op = "refresh"
              /\ calls[i].refresh_token = rt[i].token
        /\ \A i \in 1..(n - 1) : ~calls[i].ok
        /\ calls[n].ok =>
              /\ Len(refresh_tokens') >= Len(rt) - 1
              /\ \A i \in 1..(Len(rt) - 1) :
                    refresh_tokens'[i] = IF i < n THEN rt[i] ELSE rt[i + 1]
              /\ \A i \in 1..Len(refresh_tokens') :
                    refresh_tokens'[i].token # rt[n].token
        /\ ~calls[n].ok =>
              /\ n = Len(rt)
              /\ Len(calls) = n
              /\ last'.result = "False"

SucceededDirect(rec) ==
    /\ IsExchange(rec, "B", FALSE)
    /\ rec.case = "direct"
    /\ rec.result = "True"

ConsumedMemoryOnly(rec) ==
    /\ IsExchange(rec, "B", TRUE)
    /\ rec.case \in {"matched", "orphaned"}
    /\ CallsSucceeded(rec)
    /\ \E i \in 1..Len(refresh_tokens) :
          /\ refresh_tokens[i].token = rec.calls[1].refresh_token
          /\ refresh_tokens[i].expires_at >= now
          /\ refresh_tokens[i].path_on_disk = Internal

(* C32: when the consumed refresh token (with its access token, in the     *)
(* matched case) was cached memory-only and the authentication client      *)
(* succeeds, exchange(B, byRefresh) returns success, the consumed entries  *)
(* are gone from memory, the new bundle for B is cached and no file is     *)
(* deleted; in the matched and in the orphaned case alike.                 *)
C32_MemoryOnlyExchangeable ==
    [][ConsumedMemoryOnly(last')
       => LET calls == last'.calls
              n == Len(calls)
          IN  /\ last'.result = "True"
              /\ calls[n].op = "exchange"
              /\ \A i \in 1..Len(refresh_tokens') :
                    refresh_tokens'[i].token # calls[1].refresh_token
              /\ access_tokens'["B"].present
              /\ access_tokens'["B"].token = calls[n].response.access_token
              /\ \A f \in DOMAIN disk :
                    disk[f].exists /\ ~disk'[f].exists
                       => \A tok \in FileTokens(disk[f].content) : tok.exp < now]_vars

(***************************************************************************)
(* get_authenticated_requests_session (common/utility.py, lines 16-34).    *)
(* The function calls the session's operations one after another, and the  *)
(* clock may advance between two of them; `auth` holds the caller's        *)
(* position and, once the function has ended, how it ended.                *)
(***************************************************************************)

(* A session object built around the access token the function got.        *)
Returned(a, token) ==
    [a EXCEPT !.pc = "idle", !.outcome = "session", !.bearer = token]

(* The function has left by raising: NoAccessTokenFoundForService at line  *)
(* 26, or whatever exchange_token raised.                                  *)
Raised(a, exception) == [a EXCEPT !.pc = "idle", !.outcome = exception]

(* Line 19: `not session.access_tokens and not session.refresh_tokens`,    *)
(* read from the attributes as they are, without a sweep.                  *)
HasNoTokens == NoAccessTokens(access_tokens) /\ refresh_tokens = <<>>

(* Lines 18-20: the call, up to the decision whether to log in.            *)
AuthBegin(service) ==
    /\ auth.pc = "idle"
    /\ flow.pc = "idle"
    /\ auth' = [pc |-> IF HasNoTokens THEN "login" ELSE "lookup",
                outcome |-> "none", service |-> service,
                login |-> HasNoTokens, bearer |-> NoToken]
    /\ UNCHANGED <<access_tokens, refresh_tokens, disk, now, minted, last, flow>>

(* Line 20: session.start_device_flow(), up to the poll loop.              *)
AuthLogin ==
    /\ auth.pc = "login"
    /\ StartDeviceFlow(1)
    /\ auth' = [auth EXCEPT !.pc = "polling"]

(* Line 20, the poll loop of start_device_flow.                            *)
AuthPoll ==
    /\ auth.pc = "polling"
    /\ PollRaises \/ PollErrorResponse \/ PollToken
    /\ UNCHANGED auth

(* Lines 22-23: the first lookup; with a token the function goes on to     *)
(* lines 29-34 and returns.                                                *)
AuthLookup ==
    /\ \/ auth.pc = "lookup"
       \/ auth.pc = "polling" /\ flow.pc = "idle"
    /\ GetAccessToken(auth.service)
    /\ auth' = IF last'.result # NoToken
               THEN Returned(auth, last'.result)
               ELSE [auth EXCEPT !.pc = "exchange"]

(* Lines 25-26: exchange_token(service_name), by refresh and stored to     *)
(* disk by its defaults; False raises NoAccessTokenFoundForService.        *)
AuthExchange ==
    /\ auth.pc = "exchange"
    /\ \/ \E ok \in BOOLEAN : ExchangeMatched(auth.service, TRUE, ok)
       \/ \E k \in 0..MaxRefreshTokens, ok \in BOOLEAN :
             ExchangeOrphaned(auth.service, TRUE, k, ok)
       \/ ExchangeNoRefreshToken(auth.service, TRUE)
    /\ auth' = IF last'.result = "True" THEN [auth EXCEPT !.pc = "lookup_again"]
               ELSE IF last'.result = "False"
               THEN Raised(auth, "NoAccessTokenFoundForService")
               ELSE Raised(auth, "Exception")

(* Lines 27-34: the second lookup, whose result is put in the header       *)
(* whatever it is.                                                         *)
AuthLookupAgain ==
    /\ auth.pc = "lookup_again"
    /\ GetAccessToken(auth.service)
    /\ auth' = Returned(auth, last'.result)

(* One process whose requests go through                                   *)
(* get_authenticated_requests_session, and which may be restarted and load *)
(* the stored tokens between two requests.                                 *)
AuthNext ==
    \/ \E service \in Services : AuthBegin(service)
    \/ AuthLogin
    \/ AuthPoll
    \/ AuthLookup
    \/ AuthExchange
    \/ AuthLookupAgain
    \/ Tick /\ UNCHANGED auth
    \/ auth.pc = "idle" /\ NewSession /\ UNCHANGED auth
    \/ auth.pc = "idle" /\ LoadTokensFromDisk /\ UNCHANGED auth

AuthSpec == Init /\ [][AuthNext /\ UNCHANGED <<plan_vars, peer>>]_vars

(* The step is the one by which get_authenticated_requests_session ends.   *)
AuthEnds == auth.pc # "idle" /\ auth'.pc = "idle"

(* C33: get_authenticated_requests_session either raises                   *)
(* NoAccessTokenFoundForService or returns a session whose bearer token is *)
(* a present, unexpired access token cached for the requested service; and *)
(* whenever exchange_token(service) returns True, the access token of the  *)
(* service is cached immediately afterwards.                               *)
C33_RealToken ==
    [][/\ AuthEnds =>
             \/ auth'.outcome = "NoAccessTokenFoundForService"
             \/ /\ auth'.outcome = "session"
                /\ auth'.bearer # NoToken
                /\ auth'.bearer.aud = auth'.service
                /\ auth'.bearer.exp >= now'
                /\ access_tokens'[auth'.service].present
                /\ access_tokens'[auth'.service].token = auth'.bearer
       /\ (last'.op = "exchange_token" /\ last'.result = "True") =>
             access_tokens'[last'.service].present]_vars

(* The store holds no unexpired access token and no unexpired refresh      *)
(* token: it is empty or holds only expired entries.                       *)
NoLiveCredentials ==
    /\ \A aud \in Services :
          access_tokens[aud].present => access_tokens[aud].expires_at < now
    /\ LiveRefreshTokens = <<>>

(* C34: when get_authenticated_requests_session is called on a store with  *)
(* no unexpired access token and no unexpired refresh token, it starts the *)
(* device flow before any token lookup or exchange.                        *)
C34_LoginWithoutLiveCredentials ==
    [][(auth.pc = "idle" /\ auth'.pc # "idle" /\ NoLiveCredentials)
       => auth'.pc = "login" /\ auth'.login]_vars

(* Plan.run was called on a plan with nothing left to do (no steps, or the *)
(* cursor equal to the number of steps) and has ended.                     *)
RanWithNothingLeft ==
    /\ run_ctx.pc \in {"returned", "exited"}
    /\ run_ctx.start_cursor = Len(run_ctx.start_steps)

(* C35: run() on an empty plan, or on a plan whose cursor equals its number *)
(* of steps, invokes no operation, returns normally, does not write the    *)
(* recovery file and does not terminate the process.                       *)
C35_NothingLeftToDo ==
    RanWithNothingLeft =>
        /\ run_ctx.invoked = <<>>
        /\ run_ctx.pc = "returned"
        /\ ~run_ctx.dumped

(* The calls of Plan.run made on the plan so far, the one that has just    *)
(* ended included.                                                         *)
RunsSoFar == Append(run_ctx.earlier, RunSummary(run_ctx))

(* The sections of the plan: Plan.sections, lines 28-33.                   *)
SectionsOf(ss) == {ss[i].section_name : i \in 1..Len(ss)}

(* The steps of one section are separated by a step of another.            *)
Interleaved(ss) ==
    \E i, j, k \in 1..Len(ss) :
        /\ i < j /\ j < k
        /\ ss[i].section_name = ss[k].section_name
        /\ ss[j].section_name # ss[i].section_name

(* On a plan of several sections that started with no step done and the    *)
(* cursor at 0, run(section_name = S) has been called for every section S  *)
(* of the plan and for nothing else, no call was a dry run, and no         *)
(* operation has failed.                                                   *)
EverySectionRun ==
    /\ run_ctx.pc \in {"returned", "exited"}
    /\ run_ctx.raised \in {None, "IndexError"}
    /\ LET runs == RunsSoFar
       IN  /\ \A r \in 1..Len(runs) :
                 /\ runs[r].section_name # None
                 /\ ~runs[r].dry_run
           /\ runs[1].start_cursor = 0
           /\ Len(runs[1].start_steps) = Len(steps)
           /\ \A i \in 1..Len(runs[1].start_steps) : ~runs[1].start_steps[i].is_done
           /\ Interleaved(steps)
           /\ SectionsOf(steps) = {runs[r].section_name : r \in 1..Len(runs)}

(* C36: for a plan whose steps interleave several sections and whose       *)
(* operations all succeed, once run(section = S) has been called for every *)
(* section S of the plan, in any order, every step has been invoked        *)
(* exactly once and is marked done.                                        *)
C36_SectionRunsCoverPlan ==
    EverySectionRun =>
        LET runs == RunsSoFar
        IN  \A i \in 0..(Len(steps) - 1) :
               /\ Cardinality({rj \in (1..Len(runs)) \X (1..MaxSteps + 1) :
                                  /\ rj[2] <= Len(runs[rj[1]].invoked)
                                  /\ runs[rj[1]].invoked[rj[2]] = i}) = 1
               /\ steps[i + 1].is_done

(* load_tokens_from_disk has run to its end.                               *)
Loaded(rec) == rec.op = "load_tokens_from_disk" /\ rec.result = "None"

(* No two refresh entries hold the same token with the same path_on_disk.  *)
NoDuplicateRefreshToken(rt) ==
    \A i, j \in 1..Len(rt) :
        (rt[i].token = rt[j].token /\ rt[i].path_on_disk = rt[j].path_on_disk) => i = j

(* C37: with the token directory unchanged, a second load_tokens_from_disk *)
(* right after a first leaves the store as the first left it; and the      *)
(* store never holds two refresh entries with the same token and the same  *)
(* path_on_disk.                                                           *)
C37_LoadIdempotent ==
    [][/\ (Loaded(last) /\ Loaded(last')) =>
             /\ access_tokens' = access_tokens
             /\ refresh_tokens' = refresh_tokens
             /\ disk' = disk
       /\ NoDuplicateRefreshToken(refresh_tokens')]_vars

(***************************************************************************)
(* The expiry sweep over a token directory that may hold corrupt files.    *)
(***************************************************************************)

(* What an operation shows when it has raised instead of returning.        *)
RaisedValue == [kind |-> "raised"]

(* remove_expired_tokens, lines 117-140, for files visited in the order    *)
(* glob returns them: json.loads (line 119) and jwt.decode (lines 125 and  *)
(* 133) are not in a try block, so a file that is not a decodable bundle   *)
(* makes the decorator raise, with the files before it already swept.      *)
RECURSIVE SweepFiles(_, _, _)
SweepFiles(d, t, order) ==
    IF order = <<>> THEN [raised |-> FALSE, disk |-> d]
    ELSE LET f == Head(order)
         IN  IF ~IsBundle(d[f].content)
             THEN [raised |-> TRUE, disk |-> d]
             ELSE SweepFiles(IF FileIsRemoved(d[f].content, t)
                             THEN [d EXCEPT ![f] = NoFile] ELSE d,
                             t, Tail(order))

(* OIDCSession.get_access_token under its decorator, on a directory that   *)
(* may hold corrupt files: when the sweep raises the method is not entered.*)
SweptGetAccessToken(service) ==
    /\ flow.pc = "idle"
    /\ \E order \in GlobOrders(disk) :
         LET at == SweepAccessTokens(access_tokens, now)
             rt == SweepRefreshTokens(refresh_tokens, now)
             r == SweepFiles(disk, now, order)
         IN  /\ SetStore(Store(at, rt, r.disk))
             /\ last' = Record("get_access_token", service, FALSE, "read", <<>>,
                    IF r.raised THEN RaisedValue
                    ELSE IF at[service].present THEN at[service].token ELSE NoToken)
    /\ flow' = NoFlow
    /\ UNCHANGED <<now, minted>>

(* Processes that start with a token directory in which each file is a    *)
(* saved bundle or is corrupt, load it and ask for access tokens.          *)
CorruptSweepNext ==
    \/ LoadTokensFromDisk
    \/ NewSession
    \/ Tick
    \/ \E service \in Services : SweptGetAccessToken(service)

CorruptSweepSpec == CorruptInit /\ [][CorruptSweepNext /\ UNCHANGED session_frame]_vars

(* The token directory holds a file that fails to parse.                   *)
HasCorruptFile == \E f \in DOMAIN disk : disk[f].exists /\ ~IsBundle(disk[f].content)

(* C38: while the token directory holds a file that fails to parse, an     *)
(* operation other than load_tokens_from_disk (here get_access_token)      *)
(* completes as it would without that file: it does not raise, it returns  *)
(* the unexpired access token cached for the service or none, and the      *)
(* sweep that guards it passes over the corrupt file and still deletes the *)
(* files whose tokens have all expired.                                    *)
C38_CorruptFilesDoNotBreak ==
    [][(last'.op = "get_access_token" /\ HasCorruptFile)
       => /\ last'.result # RaisedValue
          /\ last'.result =
                IF access_tokens[last'.service].present
                   /\ access_tokens[last'.service].expires_at >= now
                THEN access_tokens[last'.service].token ELSE NoToken
          /\ \A f \in DOMAIN disk :
                (disk[f].exists /\ IsBundle(disk[f].content)) =>
                    disk'[f] = IF FileIsRemoved(disk[f].content, now) THEN NoFile
                               ELSE disk[f]]_vars

(***************************************************************************)
(* Two sessions on one token directory and one clock.  An operation is     *)
(* always that of the session whose caches are access_tokens and           *)
(* refresh_tokens; SwitchInstance hands the turn to the other session, so  *)
(* that the operations of the two interleave in every order.               *)
(***************************************************************************)

SwitchInstance ==
    /\ peer' = [access_tokens |-> access_tokens, refresh_tokens |-> refresh_tokens,
                flow |-> flow]
    /\ access_tokens' = peer.access_tokens
    /\ refresh_tokens' = peer.refresh_tokens
    /\ flow' = peer.flow
    /\ last' = [op |-> "switch"]
    /\ last.op # "switch"
    /\ UNCHANGED <<disk, now, minted>>

PeerNext ==
    \/ (\/ RequestToken(TRUE, TRUE)
        \/ GetAccessToken(DeviceFlowAudience)
        \/ LoadTokensFromDisk
        \/ Tick) /\ UNCHANGED peer
    \/ SwitchInstance

PeerSpec == Init /\ [][PeerNext /\ UNCHANGED <<plan_vars, auth>>]_vars

(* The other session caches an unexpired token that file f backs.          *)
BacksLiveTokenOfPeer(f) ==
    \/ \E aud \in Services :
          /\ peer.access_tokens[aud].present
          /\ peer.access_tokens[aud].path_on_disk = f
          /\ peer.access_tokens[aud].expires_at >= now
    \/ \E i \in 1..Len(peer.refresh_tokens) :
          /\ peer.refresh_tokens[i].path_on_disk = f
          /\ peer.refresh_tokens[i].expires_at >= now

(* C39: with two sessions sharing one token directory and one clock, in    *)
(* every interleaving of their operations, a file that the expiry sweep of *)
(* one session deletes backs no unexpired token cached by the other.       *)
C39_CrossInstanceSweep ==
    [][\A f \in DOMAIN disk :
          (disk[f].exists /\ ~disk'[f].exists /\ f \notin ConsumedFiles(last'))
              => ~BacksLiveTokenOfPeer(f)]_vars

(* One session has swept while the other caches an unexpired refresh token *)
(* from a file whose access token has expired: the file is still there.    *)
C39_Witness ==
    /\ last.op \in SweptOperations
    /\ \E i \in 1..Len(peer.refresh_tokens) :
          LET f == peer.refresh_tokens[i].path_on_disk
          IN  /\ f # Internal
              /\ peer.refresh_tokens[i].expires_at >= now
              /\ disk[f].exists
              /\ disk[f].content.access_token.exp < now
    /\ \E g \in DOMAIN disk :
          /\ ~disk[g].exists
          /\ \E i \in 1..Len(peer.refresh_tokens) : peer.refresh_tokens[i].path_on_disk = g

====
